---- MODULE Spec2Model ----
(***************************************************************************)
(* Caching and request-throttling subsystem of api-movie-app.              *)
(*                                                                         *)
(*   - the sliding-window rate limiter (rate-limit middleware),            *)
(*   - the cache entry layer and invalidation coordinator (CacheService),  *)
(*   - the cache-aside read paths and persist-then-invalidate mutations    *)
(*     of the Movie and Favorite services.                                 *)
(*                                                                         *)
(* The specifications share the variables below:                           *)
(*   SpecRL    the rate limiter on one limiter key,                        *)
(*   SpecCache the cache entry layer, with time passing,                   *)
(*   SpecInv   the invalidation coordinator,                               *)
(*   SpecKey   the key derivation generateKey,                             *)
(*   SpecMovie the Movie and Search services over persistence and cache,   *)
(*   SpecFav   the Favorite service over persistence and cache,            *)
(*   SpecScan  one deletePattern call, scan by scan,                       *)
(*   SpecOps   the mutations of the services step by step, next to reads.  *)
(*   SpecRoute a request through the hooks and the handler of its route,   *)
(*   SpecRate  concurrent rating mutations of one movie.                   *)
(*   SpecShared the limiter key and the cache entries in the one store.    *)
(***************************************************************************)
EXTENDS Integers, Sequences, FiniteSets, TLC

VARIABLES
    now,         \* wall clock in milliseconds (Date.now() and the store's clock)
    max,         \* RateLimitOptions.max of the limiter instance
    timeWindow,  \* RateLimitOptions.timeWindow of the limiter instance, seconds
    zset,        \* the sorted set stored under the limiter key
    zexp,        \* expiry instant of the limiter key, 0 when the key has none
    queue,       \* pipelines written to the redis connection, not yet executed
    req,         \* per request: position in the middleware and its reply
    nextId,      \* next request to arrive
    store,       \* the string keys of the store: key -> [val, exp]
    written,     \* per key, the last accepted write: what, when, for how long
    movies,      \* persistence: movie id -> version of the row, 0 when absent
    favorites,   \* persistence: user -> favorite movie ids, newest first
    hist,        \* the service calls made so far, oldest first (bounded)
    kin,         \* inputs handed to generateKey
    kout,        \* keys generateKey returned for them
    impl,        \* which MovieService the deployment runs: "redis" or "cacheService"
    scan,        \* the deletePattern call in progress: its locals and its result
    task,        \* the service calls in progress, step by step: a mutation, a read
    ratings      \* persistence: the ratings of OpMovie and the aggregates of its row

rlVars == <<now, max, timeWindow, zset, zexp, queue, req, nextId>>
cacheVars == <<store, written, movies, favorites, hist, impl, scan, task, ratings>>
keyVars == <<kin, kout>>
vars == <<now, max, timeWindow, zset, zexp, queue, req, nextId,
          store, written, movies, favorites, hist, kin, kout, impl, scan,
          task, ratings>>

(***************************************************************************)
(* Bounds of the model.                                                    *)
(***************************************************************************)
MaxReq == 3           \* requests that arrive at the limiter
MaxTime == 2500       \* the clock stops here (limiter specification)
MaxFail == 1          \* batched executions that fail
MaxLatency == 500     \* longest time a request spends in the middleware
ClockSteps == {500}   \* amounts by which the limiter clock advances
MaxLimits == {1, 2}   \* values of RateLimitOptions.max
Windows == {1, 2}     \* values of RateLimitOptions.timeWindow, in seconds

MsPerSec == 1000

Unclamped(a, b) == b

\* Math.max
Max2(a, b) == IF a >= b THEN a ELSE b

(***************************************************************************)
(* Sliding-window rate limiter.                                            *)
(***************************************************************************)

\* Redis ZREMRANGEBYSCORE key lo hi: both ends of the score range are inclusive.
ZRemRangeByScore(z, lo, hi) == {e \in z : ~(lo <= e.score /\ e.score <= hi)}

ZCard(z) == Cardinality(z)

\* Redis ZADD key score member: a member already present gets the new score.
ZAdd(z, score, member) ==
    {e \in z : e.member # member} \cup {[score |-> score, member |-> member]}

MemberNoSuffix(t, r) == <<t, 0>>

\* `${now}-${Math.random()}`: the random suffix is modelled by the identity of
\* the request, two requests never drawing the same one.
Member(t, r) == <<t, r>>

WindowStartExclusive(t, tw) == t - tw * MsPerSec - 1

\* const windowStart = now - timeWindow * 1000
WindowStart(t, tw) == t - tw * MsPerSec

RejectsAbove(count, mx) == count > mx

\* if (count >= max)
Rejects(count, mx) == count >= mx

\* The JSON body of the 429 reply; NoBody when nothing is sent.
NoBody == <<>>
TooManyRequests(tw) ==
    [statusCode |-> 429, error |-> "Too Many Requests",
     message |-> "errorMessage", retryAfter |-> tw]

NoReply ==
    [code |-> 0, limit |-> 0, remaining |-> 0, reset |-> 0, retryAfter |-> 0,
     body |-> NoBody]

FailClosed(res, count, mx, tw, t) ==
    IF res \in {"throw", "null"}
    THEN [code |-> 429, limit |-> mx, remaining |-> 0,
          reset |-> t + tw * MsPerSec, retryAfter |-> tw,
          body |-> TooManyRequests(tw)]
    ELSE IF Rejects(count, mx)
         THEN [code |-> 429, limit |-> mx,
               remaining |-> Max2(0, mx - count - 1),
               reset |-> t + tw * MsPerSec, retryAfter |-> tw,
               body |-> TooManyRequests(tw)]
         ELSE [code |-> 0, limit |-> mx,
               remaining |-> Max2(0, mx - count - 1),
               reset |-> t + tw * MsPerSec, retryAfter |-> 0,
               body |-> NoBody]

\* What the middleware does with the outcome of pipeline.exec(): the reply it
\* sends, code 0 meaning that nothing was sent and the request goes on to its
\* handler.  res is "throw" when exec() rejected (the catch block), "null"
\* when it resolved to no result, "ok" when it resolved to the replies.
\* timeWindow is a whole number of seconds, so Math.ceil(timeWindow) is tw.
HandleResults(res, count, mx, tw, t) ==
    IF res = "throw" THEN NoReply
    ELSE IF res = "null" THEN NoReply
    ELSE IF Rejects(count, mx)
         THEN [code |-> 429, limit |-> mx,
               remaining |-> Max2(0, mx - count - 1),
               reset |-> t + tw * MsPerSec, retryAfter |-> tw,
               body |-> TooManyRequests(tw)]
         ELSE [code |-> 0, limit |-> mx,
               remaining |-> Max2(0, mx - count - 1),
               reset |-> t + tw * MsPerSec, retryAfter |-> 0,
               body |-> NoBody]

ExpireInMillis(t, tw) == t + tw

\* pipeline.expire(key, timeWindow) executed at instant t: the instant at
\* which the store removes the key, timeWindow being in seconds.
ExpireAt(t, tw) == t + tw * MsPerSec

\* No deletePattern call is in progress.
NoScan == [pc |-> "idle"]

\* No service call is in progress.
NoTask == [pc |-> "idle"]

\* No rating is stored, and the row of the movie says so.
NoRatings ==
    [rows |-> <<>>, averageRating |-> [num |-> 0, den |-> 1], ratingCount |-> 0]

IdleReq ==
    [pc |-> "idle", now |-> 0, execAt |-> 0, alone |-> FALSE, res |-> "none",
     count |-> 0, reply |-> NoReply]

InitRL ==
    /\ now = 0
    /\ max \in MaxLimits
    /\ timeWindow \in Windows
    /\ zset = {}
    /\ zexp = 0
    /\ queue = <<>>
    /\ req = [r \in 1..MaxReq |-> IdleReq]
    /\ nextId = 1
    /\ store = <<>>
    /\ written = <<>>
    /\ movies = <<>>
    /\ favorites = <<>>
    /\ hist = <<>>
    /\ kin = <<>>
    /\ kout = <<>>
    /\ impl = "cacheService"
    /\ scan = NoScan
    /\ task = [mut |-> NoTask, rd |-> NoTask]
    /\ ratings = NoRatings

\* Time passes.  A key whose expiry instant is reached is removed by the store.
\* A request is answered at most MaxLatency after it arrived (the connection's
\* bounded retry policy), so the clock does not run further ahead of a request
\* in flight.
RLTick ==
    /\ \E d \in ClockSteps :
        /\ now + d <= MaxTime
        /\ \A r \in 1..MaxReq :
              req[r].pc \in {"queued", "executed"} =>
                  now + d - req[r].now <= MaxLatency
        /\ now' = now + d
        /\ IF zexp # 0 /\ now + d >= zexp
           THEN zset' = {} /\ zexp' = 0
           ELSE UNCHANGED <<zset, zexp>>
    /\ UNCHANGED <<max, timeWindow, queue, req, nextId>>

\* A request enters the middleware: it reads Date.now(), builds the pipeline
\* and calls exec(), which writes the four commands to the connection in one
\* piece.  All of this runs without an await in between.
RLStart ==
    /\ nextId <= MaxReq
    /\ req' = [req EXCEPT ![nextId] =
                 [@ EXCEPT !.pc = "queued", !.now = now,
                           !.alone = \A i \in 1..(nextId - 1) :
                                        req[i].pc = "done"]]
    /\ queue' = Append(queue, nextId)
    /\ nextId' = nextId + 1
    /\ UNCHANGED <<now, max, timeWindow, zset, zexp>>

\* The store executes the oldest pipeline of the connection.  The module's
\* single redis client is one connection, a pipeline is written to it as one
\* contiguous block and the store runs a connection's commands in order, so no
\* command of another request of this process falls between the four.
\*   zremrangebyscore(key, 0, windowStart); zcard(key);
\*   zadd(key, now, `${now}-${Math.random()}`); expire(key, timeWindow)
RLExecOk ==
    /\ queue # <<>>
    /\ LET r == Head(queue)
           pruned == ZRemRangeByScore(zset, 0, WindowStart(req[r].now, timeWindow))
       IN /\ zset' = ZAdd(pruned, req[r].now, Member(req[r].now, r))
          /\ zexp' = ExpireAt(now, timeWindow)
          /\ req' = [req EXCEPT ![r] =
                       [@ EXCEPT !.pc = "executed", !.execAt = now,
                                 !.res = "ok", !.count = ZCard(pruned)]]
    /\ queue' = Tail(queue)
    /\ UNCHANGED <<now, max, timeWindow, nextId>>

\* The store is unavailable: exec() resolves to no result or rejects, and the
\* key is left as it was.
RLExecFail ==
    /\ queue # <<>>
    /\ Cardinality({r \in 1..MaxReq : req[r].res \in {"null", "throw"}}) < MaxFail
    /\ \E f \in {"null", "throw"} :
        req' = [req EXCEPT ![Head(queue)] =
                  [@ EXCEPT !.pc = "executed", !.execAt = now, !.res = f]]
    /\ queue' = Tail(queue)
    /\ UNCHANGED <<now, max, timeWindow, zset, zexp, nextId>>

\* The middleware resumes after the await and answers or lets the request go.
\* The replies of one connection arrive in the order of its pipelines, so the
\* requests resume in the order in which they arrived.
RLFinish ==
    /\ \E r \in 1..MaxReq :
        /\ req[r].pc = "executed"
        /\ \A i \in 1..(r - 1) : req[i].pc = "done"
        /\ req' = [req EXCEPT ![r] =
                     [@ EXCEPT !.pc = "done",
                               !.reply = HandleResults(req[r].res, req[r].count,
                                                       max, timeWindow,
                                                       req[r].now)]]
    /\ UNCHANGED <<now, max, timeWindow, zset, zexp, queue, nextId>>

NextRL ==
    \/ RLTick /\ UNCHANGED <<cacheVars, keyVars>>
    \/ RLStart /\ UNCHANGED <<cacheVars, keyVars>>
    \/ RLExecOk /\ UNCHANGED <<cacheVars, keyVars>>
    \/ RLExecFail /\ UNCHANGED <<cacheVars, keyVars>>
    \/ RLFinish /\ UNCHANGED <<cacheVars, keyVars>>

SpecRL == InitRL /\ [][NextRL]_vars

(***************************************************************************)
(* Properties of the rate limiter.                                         *)
(***************************************************************************)
Done(r) == req[r].pc = "done"
Admitted(r) == Done(r) /\ req[r].reply.code # 429
Rejected(r) == Done(r) /\ req[r].reply.code = 429
WindowMs == timeWindow * MsPerSec

\* A set of requests lies within one window when the store has executed the
\* batch of each less than the window duration after the earliest timestamp
\* any of them read.
WithinOneWindow(S) ==
    \A a \in S, b \in S : req[b].execAt - req[a].now < WindowMs

\* C1: of the requests on one limiter key whose batches the store executed
\* within one window, in whatever order they were in flight together, at most
\* max are admitted (not answered with 429).
C1_AtMostMaxAdmitted ==
    \A S \in SUBSET (1..MaxReq) :
        (/\ \A r \in S : Done(r) /\ req[r].res = "ok"
         /\ WithinOneWindow(S))
        => Cardinality({r \in S : Admitted(r)}) <= max

\* More requests than max were in flight together within one window, and all
\* have been answered.
C1_Witness ==
    /\ \A r \in 1..MaxReq : Done(r) /\ req[r].res = "ok"
    /\ \A r \in 2..MaxReq : ~req[r].alone
    /\ WithinOneWindow(1..MaxReq)
    /\ MaxReq > max
    /\ Cardinality({r \in 1..MaxReq : Admitted(r)}) = max
    /\ \E r \in 1..MaxReq : Rejected(r)

\* Requests 1..r were issued one after the other, each after the previous one
\* was answered, the store executed each batch, and all of it happened within
\* one window that was empty when request 1 arrived.
Sequential(r) ==
    /\ \A i \in 1..r : Done(i) /\ req[i].res = "ok"
    /\ \A i \in 2..r : req[i].alone
    /\ WithinOneWindow(1..r)

C14_HeadersAndRejection ==
    \A r \in 1..MaxReq :
        (Done(r) /\ req[r].res = "ok") =>
            /\ Rejected(r) <=> req[r].count >= max
            /\ req[r].reply.limit = max
            /\ req[r].reply.remaining =
                   (IF max - req[r].count - 1 > 0 THEN max - req[r].count - 1 ELSE 0)
            /\ req[r].reply.remaining >= 0
            /\ Rejected(r) =>
                   /\ req[r].reply.code = 429
                   /\ req[r].reply.retryAfter = timeWindow
                   /\ DOMAIN req[r].reply.body =
                          {"statusCode", "error", "message", "retryAfter"}
                   /\ req[r].reply.body.statusCode = 429
                   /\ req[r].reply.body.retryAfter = timeWindow
            /\ ~Rejected(r) => req[r].reply.code = 0

\* A request was rejected on a count above max (earlier rejected requests
\* are in the window), where max - count - 1 is negative, and an earlier one
\* was let through.
C14_Witness ==
    \E r, a \in 1..MaxReq :
        /\ Done(r) /\ req[r].res = "ok" /\ Rejected(r)
        /\ req[r].count > max
        /\ req[r].reply.remaining = 0
        /\ Done(a) /\ req[a].res = "ok" /\ Admitted(a)
        /\ req[a].reply.limit = max

\* C3 (as claimed): after max admitted requests and a rejected one within one
\* window, a request issued more than the window duration after the first
\* request is admitted.
C3_AdmittedAfterWindow ==
    \A r \in 1..MaxReq :
        (/\ r > max + 1
         /\ Sequential(max + 1)
         /\ Done(r) /\ req[r].res = "ok" /\ req[r].alone
         /\ req[r].now - req[1].now > WindowMs)
        => Admitted(r)

\* C10: a request whose batched execution failed (no result, or an error) is
\* admitted: it is answered nothing, so never 429, and goes on to its handler.
C10_FailOpen ==
    \A r \in 1..MaxReq :
        (Done(r) /\ req[r].res \in {"null", "throw"}) => req[r].reply = NoReply

\* A batch failed while the window held max entries or more, and the request
\* was let through although another request had just been answered 429.
C10_Witness ==
    \E r \in 2..MaxReq :
        /\ Done(r) /\ req[r].res \in {"null", "throw"}
        /\ Rejected(r - 1)
        /\ req[r].now - req[r - 1].now < WindowMs

\* The store executes the batch of request r in this step.
Executes(r) ==
    req[r].pc = "queued" /\ req'[r].pc = "executed" /\ req'[r].res = "ok"

\* C23 (as claimed): a limiter check made at time now removes exactly the
\* entries whose timestamp is strictly before windowStart = now -
\* windowDuration; an entry whose timestamp equals windowStart stays in the
\* set and is counted for the decision.
C23_PruneStrictlyBefore ==
    [][\A r \in 1..MaxReq :
          Executes(r) =>
              LET kept == {e \in zset :
                              e.score >= WindowStart(req[r].now, timeWindow)}
              IN /\ zset' = kept \cup {[score |-> req[r].now,
                                        member |-> Member(req[r].now, r)]}
                 /\ req'[r].count = Cardinality(kept)]_vars

\* C24 (as claimed): at every instant, every timestamp held in the window set
\* is not older than that instant minus the window duration.
C24_OnlyTrailingWindowAtAnyInstant ==
    \A e \in zset : e.score >= now - WindowMs

\* C24 (amended): right after a limiter check made at time t has executed,
\* every timestamp held in the window set is newer than t minus the window
\* duration; older entries stay in the set between checks only.
C24_OnlyTrailingWindowAfterCheck ==
    [][\A r \in 1..MaxReq :
          Executes(r) => \A e \in zset' : e.score > req[r].now - WindowMs]_vars

\* The third check has executed a window or more after the first while the
\* entry of the second is still held: it removed the entry of the first.
C24_Witness ==
    /\ \A r \in 1..3 : req[r].pc \in {"executed", "done"} /\ req[r].res = "ok"
    /\ req[1].now <= req[3].now - WindowMs
    /\ req[2].now > req[3].now - WindowMs
    /\ {e.score : e \in zset} = {req[2].now, req[3].now}
    /\ req[3].count = 1

\* The batch of request r was executed and no batch was executed on the key
\* after it.
LastCheck(r) ==
    /\ req[r].pc \in {"executed", "done"} /\ req[r].res = "ok"
    /\ \A i \in (r + 1)..MaxReq :
          ~(req[i].pc \in {"executed", "done"} /\ req[i].res = "ok")

\* C25: after a completed limiter check the key carries an expiry of the
\* window duration, counted from the check; no limiter key exists without an
\* expiry; and a key that receives no further check is removed once the
\* window duration has passed since its last check.
C25_KeyCarriesWindowExpiry ==
    /\ zset # {} => (zexp # 0 /\ now < zexp /\ zexp - now <= WindowMs)
    /\ \A r \in 1..MaxReq :
          LastCheck(r) =>
              IF now < req[r].execAt + WindowMs
              THEN zset # {} /\ zexp = req[r].execAt + WindowMs
              ELSE zset = {} /\ zexp = 0

\* Two checks were made, the second renewing the expiry, no request followed,
\* and the key was removed a window after the second check.
C25_Witness ==
    /\ nextId = 3
    /\ LastCheck(2) /\ req[2].pc = "done"
    /\ req[1].res = "ok"
    /\ req[2].execAt > req[1].execAt
    /\ req[2].execAt < req[1].execAt + WindowMs
    /\ now >= req[2].execAt + WindowMs
    /\ zset = {} /\ zexp = 0

\* C27 (as claimed): at every instant, of the requests whose batch the store
\* executed, those admitted whose timestamps lie in the window of the window
\* duration ending at that instant are at most max.  The windows ending at
\* the timestamp of a request are the ones that hold the most.
C27_AtMostMaxTimestampsAdmitted ==
    \A r0 \in 1..MaxReq :
        Done(r0) =>
            Cardinality({r \in 1..MaxReq :
                            /\ Admitted(r) /\ req[r].res = "ok"
                            /\ req[r0].now - WindowMs < req[r].now
                            /\ req[r].now <= req[r0].now}) <= max

\* C28 (as claimed): a request that is rejected leaves no entry of its own in
\* the window set: the set after its check holds no entry it did not hold
\* before.
C28_RejectionAddsNoEntry ==
    [][\A r \in 1..MaxReq :
          (Executes(r) /\ Rejects(req'[r].count, max)) => zset' \subseteq zset]_vars

(***************************************************************************)
(* Values and their JSON form.                                             *)
(*                                                                         *)
(* A value handed to the cache is a JavaScript value; the store keeps the  *)
(* text JSON.stringify makes of it and a read returns what JSON.parse      *)
(* makes of that text.  A Date becomes its ISO string and stays a string.  *)
(***************************************************************************)
JSNull == [t |-> "null"]
Num(n) == [t |-> "num", n |-> n]
Str(x) == [t |-> "str", s |-> x]
DateV(d) == [t |-> "date", d |-> d]
Obj(f) == [t |-> "obj", f |-> f]
Arr(a) == [t |-> "arr", a |-> a]

\* Date.prototype.toJSON: the ISO text of the instant.
IsoString(d) == IF d = 1 THEN "1970-01-01T00:00:00.001Z" ELSE "1970-01-01T00:00:00.002Z"

RECURSIVE ToJSON(_)
ToJSON(v) ==
    CASE v.t = "date" -> Str(IsoString(v.d))
      [] v.t = "obj" -> Obj([x \in DOMAIN v.f |-> ToJSON(v.f[x])])
      [] v.t = "arr" -> Arr([i \in DOMAIN v.a |-> ToJSON(v.a[i])])
      [] OTHER -> v

\* JSON.stringify(value): the payload written to the store.
Stringify(v) == [json |-> ToJSON(v)]

\* JSON.parse(cached)
Parse(payload) == payload.json

\* A payload that is not JSON text (truncated, or written by another client);
\* JSON.parse throws a SyntaxError on it.
Corrupt == [text |-> "{"]
ParseThrows(payload) == "json" \notin DOMAIN payload

(***************************************************************************)
(* The store's string keys.  A key is the sequence of the pieces the code  *)
(* concatenates; a glob `prefix*` matches the keys that start with the     *)
(* pieces of the prefix.                                                   *)
(***************************************************************************)
Movies == {"m1", "m2"}
Users == {"u1", "u2"}

MovieKey(m) == <<"movie:", m>>
ListKey(q) == <<"movies:list:">> \o q
SearchKey(q) == <<"search:">> \o q
UserKey(u) == <<"user:", u>>
CommentsMovieKey(m) == <<"comments:", "movie:", m>>
RatingsMovieKey(m) == <<"ratings:", "movie:", m>>
FavoritesUserKey(u) == <<"favorites:", "user:", u>>
WatchedUserKey(u) == <<"watched:", "user:", u>>
RatingsUserPageKey(u, page) == <<"ratings:", "user:", u, ":page:", page>>  \* page as text
CommentsUserKey(u) == <<"comments:", "user:", u>>

\* Redis glob match of `prefix*`.
Matches(prefix, k) ==
    /\ Len(k) >= Len(prefix)
    /\ SubSeq(k, 1, Len(prefix)) = prefix

\* redis.get(key): the payload, or Nil when the key does not exist.
Nil == [nil |-> TRUE]
RedisGet(s, k) == IF k \in DOMAIN s THEN s[k].val ELSE Nil

\* redis.setex(key, ttl, payload) at instant t: ttl is in seconds.
RedisSetexMillis(s, k, ttl, payload, t) ==
    [x \in (DOMAIN s) \cup {k} |->
        IF x = k THEN [val |-> payload, exp |-> t + ttl] ELSE s[x]]

RedisSetex(s, k, ttl, payload, t) ==
    [x \in (DOMAIN s) \cup {k} |->
        IF x = k THEN [val |-> payload, exp |-> t + ttl * MsPerSec] ELSE s[x]]

\* redis.del(...keys)
RedisDel(s, ks) == [x \in (DOMAIN s) \ ks |-> s[x]]

\* The keys a full SCAN ... MATCH pattern iteration returns.
ScanMatch(s, prefix) == {k \in DOMAIN s : Matches(prefix, k)}

\* The store drops an entry once its expiry instant is reached.
Expire(s, t) == [x \in {k \in DOMAIN s : s[k].exp > t} |-> s[x]]

(***************************************************************************)
(* CacheService.  `up` tells whether the store answers the call; when it   *)
(* does not, the redis call rejects and the catch block of the method runs.*)
(***************************************************************************)
TTL_SHORT == 60
TTL_MEDIUM == 300
TTL_LONG == 3600
TTL_DAY == 86400
\* CacheService.TTL, the tiers
TTL == {TTL_SHORT, TTL_MEDIUM, TTL_LONG, TTL_DAY}

\* CacheService.get
CsGet(s, k, up) ==
    IF ~up THEN JSNull
    ELSE IF RedisGet(s, k) = Nil THEN JSNull
    ELSE IF ParseThrows(RedisGet(s, k)) THEN JSNull
    ELSE Parse(RedisGet(s, k))

\* CacheService.set
CsSet(s, k, v, ttl, t, up) ==
    IF up THEN RedisSetex(s, k, ttl, Stringify(v), t) ELSE s

\* CacheService.delete
CsDelete(s, k, up) == IF up THEN RedisDel(s, {k}) ELSE s

DeleteFirstOnly(s, prefix, up) ==
    IF up /\ ScanMatch(s, prefix) # {}
    THEN RedisDel(s, {CHOOSE k \in ScanMatch(s, prefix) : TRUE})
    ELSE s

\* CacheService.deletePattern, run to its end: the scan loop deletes every key
\* the iteration returns, whatever the batches are.  When the store does not
\* answer, the first scan rejects and nothing is deleted.
CsDeletePattern(s, prefix, up) ==
    IF up THEN RedisDel(s, ScanMatch(s, prefix)) ELSE s

\* CacheService.invalidateMovie: five independent calls under Promise.all;
\* F holds the calls the store does not answer.  Each deletes keys only, so
\* the order in which they complete does not matter.
CsInvalidateMovie(s, m, F) ==
    LET s1 == CsDelete(s, MovieKey(m), 1 \notin F)
        s2 == CsDeletePattern(s1, <<"movies:list:">>, 2 \notin F)
        s3 == CsDeletePattern(s2, <<"search:">>, 3 \notin F)
        s4 == CsDeletePattern(s3, CommentsMovieKey(m), 4 \notin F)
    IN CsDeletePattern(s4, RatingsMovieKey(m), 5 \notin F)

\* CacheService.invalidateSearches
CsInvalidateSearches(s, F) == CsDeletePattern(s, <<"search:">>, 1 \notin F)

\* CacheService.invalidateLists
CsInvalidateLists(s, F) == CsDeletePattern(s, <<"movies:list:">>, 1 \notin F)

\* CacheService.invalidateUser
CsInvalidateUser(s, u, F) ==
    LET s1 == CsDelete(s, UserKey(u), 1 \notin F)
        s2 == CsDeletePattern(s1, FavoritesUserKey(u), 2 \notin F)
        s3 == CsDeletePattern(s2, WatchedUserKey(u), 3 \notin F)
        s4 == CsDeletePattern(s3, <<"ratings:", "user:", u>>, 4 \notin F)
    IN CsDeletePattern(s4, CommentsUserKey(u), 5 \notin F)

\* Whether a CacheService method lets a store error out to its caller: get,
\* set, delete and deletePattern catch it and log.
GetThrows(up) == FALSE
SetThrows(up) == FALSE
DeleteThrows(up) == FALSE
DeletePatternThrows(up) == FALSE

\* Whether invalidateMovie / invalidateUser (five calls) or invalidateLists /
\* invalidateSearches (one call) reject: Promise.all rejects when a call does.
InvalidateThrows(n, F) ==
    \/ (1 \in F /\ IF n = 5 THEN DeleteThrows(FALSE) ELSE DeletePatternThrows(FALSE))
    \/ \E i \in (2..n) \cap F : DeletePatternThrows(FALSE)

(***************************************************************************)
(* The cache layer driven directly (SpecCache, SpecInv).                   *)
(***************************************************************************)
MaxEntries == 3      \* keys the model follows at one time

\* Instants at which the model looks at the store: the instants, counted from
\* a write at 0 or 60 s, around which the SHORT and MEDIUM tiers elapse.
CachePoints == {30000, 60000, 120000, 300000, 360000}

TTLTiers == {TTL_SHORT, TTL_MEDIUM}
JSValues == {Num(1), DateV(1), Obj([id |-> Str("m1"), createdAt |-> DateV(1)])}
ProbeKeys == {MovieKey("m1"), ListKey(<<"q1">>)}
InvKeys ==
    {MovieKey(m) : m \in Movies} \cup {ListKey(<<"q1">>), ListKey(<<"q2">>)}
    \cup {SearchKey(<<"q1">>), CommentsMovieKey("m1"), RatingsMovieKey("m2")}
    \cup {UserKey("u1"), WatchedUserKey("u1"), RatingsUserPageKey("u1", "1")}
    \cup {FavoritesUserKey(u) : u \in Users} \cup {CommentsUserKey("u2")}

\* The calls of a handler that the store does not answer: none, one of them,
\* or all of them.
FailSets(n) == {{}} \cup {{i} : i \in 1..n} \cup {1..n}

\* The record kept of a call: what was called with what, what it returned,
\* whether a store call in it failed, whether it raised, how many keys it
\* removed and when it ran.
\* again: the call before it was the same call, and the store answered it;
\* before: the number of keys that call removed.
Call(op, a, res, failed, err, deleted) ==
    [op |-> op, a |-> a, res |-> res, failed |-> failed, err |-> err,
     deleted |-> deleted, at |-> now,
     again |-> /\ hist # <<>>
               /\ hist[Len(hist)].op = op /\ hist[Len(hist)].a = a
               /\ ~hist[Len(hist)].failed,
     before |-> IF hist # <<>> THEN hist[Len(hist)].deleted ELSE 0]

Push1(h, c) == <<c>>
Last == hist[Len(hist)]

Removed(s, t) == Cardinality((DOMAIN s) \ (DOMAIN t))
Forget(w, s, t) == [k \in (DOMAIN w) \ ((DOMAIN s) \ (DOMAIN t)) |-> w[k]]

InitCache ==
    /\ now = 0
    /\ store = <<>>
    /\ written = <<>>
    /\ hist = <<>>
    /\ max = 1
    /\ timeWindow = 1
    /\ zset = {}
    /\ zexp = 0
    /\ queue = <<>>
    /\ req = <<>>
    /\ nextId = 1
    /\ movies = <<>>
    /\ favorites = <<>>
    /\ kin = <<>>
    /\ kout = <<>>
    /\ impl = "cacheService"
    /\ scan = NoScan
    /\ task = [mut |-> NoTask, rd |-> NoTask]
    /\ ratings = NoRatings

nonCache == <<max, timeWindow, zset, zexp, queue, req, nextId,
              movies, favorites, kin, kout, impl, scan, task, ratings>>

\* Time passes to the next instant; the store drops what has expired.
CacheTick ==
    /\ \E t \in CachePoints :
        /\ t > now
        /\ \A t2 \in CachePoints : t2 > now => t <= t2
        /\ now' = t
        /\ store' = Expire(store, t)
    /\ UNCHANGED <<written, hist, nonCache>>

\* cacheService.set(k, v, ttl)
CSetStep(K, V, T) ==
    /\ \E k \in K, v \in V, ttl \in T, up \in BOOLEAN :
        /\ k \in DOMAIN written \/ Cardinality(DOMAIN written) < MaxEntries
        /\ store' = CsSet(store, k, v, ttl, now, up)
        /\ written' = IF up
                      THEN [x \in (DOMAIN written) \cup {k} |->
                              IF x = k THEN [v |-> v, at |-> now, ttl |-> ttl]
                              ELSE written[x]]
                      ELSE written
        /\ hist' = Push1(hist, Call("set", k, JSNull, ~up,
                                    IF SetThrows(up) THEN "store" ELSE "none", 0))
    /\ UNCHANGED <<now, nonCache>>

\* cacheService.get(k)
CGetStep(K) ==
    /\ \E k \in K, up \in BOOLEAN :
        hist' = Push1(hist, Call("get", k, CsGet(store, k, up), ~up,
                                 IF GetThrows(up) THEN "store" ELSE "none", 0))
    /\ UNCHANGED <<now, store, written, nonCache>>

\* cacheService.delete(k)
CDeleteStep(K) ==
    /\ \E k \in K, up \in BOOLEAN :
        /\ store' = CsDelete(store, k, up)
        /\ written' = IF up THEN [x \in (DOMAIN written) \ {k} |-> written[x]]
                      ELSE written
        /\ hist' = Push1(hist, Call("delete", k, JSNull, ~up,
                                    IF DeleteThrows(up) THEN "store" ELSE "none",
                                    Removed(store, CsDelete(store, k, up))))
    /\ UNCHANGED <<now, nonCache>>

\* One invalidation call, op naming it and t the store it leaves.
Invalidated(op, a, n, F, t) ==
    /\ store' = t
    /\ written' = Forget(written, store, t)
    /\ hist' = Push1(hist, Call(op, a, JSNull, F # {},
                                IF InvalidateThrows(n, F) THEN "store" ELSE "none",
                                Removed(store, t)))
    /\ UNCHANGED <<now, nonCache>>

\* cacheService.invalidateMovie(m)
CInvalidateMovie(M) ==
    \E m \in M, F \in FailSets(5) :
        Invalidated("invalidateMovie", <<m>>, 5, F, CsInvalidateMovie(store, m, F))

\* cacheService.invalidateUser(u)
CInvalidateUser ==
    \E u \in Users, F \in FailSets(5) :
        Invalidated("invalidateUser", <<u>>, 5, F, CsInvalidateUser(store, u, F))

\* cacheService.invalidateLists()
CInvalidateLists ==
    \E F \in FailSets(1) :
        Invalidated("invalidateLists", <<>>, 1, F, CsInvalidateLists(store, F))

\* cacheService.invalidateSearches()
CInvalidateSearches ==
    \E F \in FailSets(1) :
        Invalidated("invalidateSearches", <<>>, 1, F, CsInvalidateSearches(store, F))

NextCache ==
    \/ CacheTick
    \/ CSetStep(ProbeKeys, JSValues, TTLTiers)
    \/ CGetStep(ProbeKeys)
    \/ CDeleteStep(ProbeKeys)
    \/ CInvalidateMovie({"m1"})

SpecCache == InitCache /\ [][NextCache]_vars

NextInv ==
    \/ CSetStep(InvKeys, {Num(1)}, {TTL_MEDIUM})
    \/ CInvalidateMovie(Movies)
    \/ CInvalidateUser
    \/ CInvalidateLists
    \/ CInvalidateSearches

SpecInv == InitCache /\ [][NextInv]_vars

(***************************************************************************)
(* Properties of the cache layer.                                          *)
(***************************************************************************)
ElapsesAt(w) == w.at + w.ttl * MsPerSec

\* C7 (as claimed): a get of a key that is not present returns absent; after
\* set(k, v, ttl), with no later write or delete of k, a get returns a value
\* equal to v at every time before ttl has elapsed and absent at every time
\* after.
C7_GetReturnsValue ==
    (hist # <<>> /\ Last.op = "get" /\ ~Last.failed) =>
        IF Last.a \in DOMAIN written
        THEN /\ Last.at < ElapsesAt(written[Last.a])
                    => Last.res = written[Last.a].v
             /\ Last.at > ElapsesAt(written[Last.a]) => Last.res = JSNull
        ELSE Last.res = JSNull

\* C7 (amended): the same, the value returned before ttl has elapsed being
\* JSON.parse(JSON.stringify(v)): v itself when v is JSON data, v with every
\* Date replaced by its ISO string otherwise.
C7_GetReturnsJSONOfValue ==
    (hist # <<>> /\ Last.op = "get" /\ ~Last.failed) =>
        IF Last.a \in DOMAIN written
        THEN /\ Last.at < ElapsesAt(written[Last.a])
                    => /\ Last.res = Parse(Stringify(written[Last.a].v))
                       /\ (written[Last.a].v = Num(1) => Last.res = Num(1))
             /\ Last.at > ElapsesAt(written[Last.a]) => Last.res = JSNull
        ELSE Last.res = JSNull

\* A Date was written and read back, before its ttl had elapsed, as its ISO
\* string.
C7_Witness ==
    /\ hist # <<>> /\ Last.op = "get" /\ ~Last.failed
    /\ Last.a \in DOMAIN written
    /\ written[Last.a].v = DateV(1)
    /\ written[Last.a].ttl = TTL_SHORT
    /\ written[Last.a].at < Last.at
    /\ Last.at < ElapsesAt(written[Last.a])
    /\ Last.res = Str(IsoString(1))

InvOps == {"invalidateMovie", "invalidateUser", "invalidateLists",
           "invalidateSearches"}

\* C8: an invalidation raises no error, matching keys or not, and a second
\* call right after a first one removes nothing more: the store is as the
\* first call left it.  (A call during which the store did not answer may
\* leave keys behind for the next one; the comparison is between calls the
\* store answered.)
C8_InvalidationIdempotent ==
    (hist # <<>> /\ Last.op \in InvOps) =>
        /\ Last.err = "none"
        /\ (Last.again /\ ~Last.failed) => Last.deleted = 0

\* invalidateMovie ran twice in succession with keys of several kinds present,
\* some of which it does not match.
C8_Witness ==
    /\ hist # <<>> /\ Last.op = "invalidateMovie" /\ Last.a = <<"m1">>
    /\ Last.again /\ ~Last.failed
    /\ Last.before >= 2
    /\ Last.deleted = 0
    /\ MovieKey("m2") \in DOMAIN store

(***************************************************************************)
(* Key derivation.  A parameter object is the sequence of its (name, value)*)
(* properties in insertion order, the names distinct.                      *)
(***************************************************************************)
MaxParams == 2       \* properties of a parameter object

ParamNames == {"limit", "order", "page", "sortBy"}
ParamValues == {"1", "2", "undefined"}

\* Position of a name in the order Array.prototype.sort() puts strings in.
Rank(n) ==
    CASE n = "limit" -> 1
      [] n = "order" -> 2
      [] n = "page" -> 3
      [] n = "q" -> 4
      [] n = "sortBy" -> 5

ParamObjects ==
    UNION {{p \in [1..n -> ParamNames \X ParamValues] :
                \A i, j \in 1..n : i # j => p[i][1] # p[j][1]} : n \in 0..MaxParams}

\* Object.keys(params).sort().reduce(...): the properties, by ascending name.
RECURSIVE SortedParams(_)
SortedParams(p) ==
    IF p = <<>> THEN <<>>
    ELSE LET i == CHOOSE i \in DOMAIN p :
                    \A j \in DOMAIN p : Rank(p[i][1]) <= Rank(p[j][1])
             rest == [k \in 1..(Len(p) - 1) |-> IF k < i THEN p[k] ELSE p[k + 1]]
         IN <<p[i]>> \o SortedParams(rest)

\* JSON.stringify of a parameter object, as the pieces of its text: the
\* properties in the object's order, those whose value is undefined left out.
RECURSIVE JSONProperties(_)
JSONProperties(p) ==
    IF p = <<>> THEN <<>>
    ELSE (IF p[1][2] = "undefined" THEN <<>> ELSE <<p[1][1], p[1][2]>>)
         \o JSONProperties(Tail(p))

JSONText(p) == <<"{">> \o JSONProperties(p) \o <<"}">>

GenerateKeyUnsorted(prefix, params) == <<prefix>> \o JSONText(params)

\* CacheService.generateKey
GenerateKey(prefix, params) == <<prefix>> \o JSONText(SortedParams(params))

\* `movies:list:${JSON.stringify(params)}`
StringifiedKey(prefix, params) == <<prefix>> \o JSONText(params)

\* The properties of an object, whatever their order.
Pairs(p) == {p[i] : i \in DOMAIN p}

InitKey ==
    /\ kin \in {"movies:list:", "search:"} \X ParamObjects \X ParamObjects
    /\ kout = <<>>
    /\ now = 0
    /\ store = <<>>
    /\ written = <<>>
    /\ hist = <<>>
    /\ max = 1
    /\ timeWindow = 1
    /\ zset = {}
    /\ zexp = 0
    /\ queue = <<>>
    /\ req = <<>>
    /\ nextId = 1
    /\ movies = <<>>
    /\ favorites = <<>>
    /\ impl = "cacheService"
    /\ scan = NoScan
    /\ task = [mut |-> NoTask, rd |-> NoTask]
    /\ ratings = NoRatings

\* generateKey is applied to both parameter objects.
KeyGen ==
    /\ kout = <<>>
    /\ kout' = <<GenerateKey(kin[1], kin[2]), GenerateKey(kin[1], kin[3])>>
    /\ UNCHANGED <<kin, rlVars, cacheVars>>

NextKey == KeyGen

SpecKey == InitKey /\ [][NextKey]_vars

\* C6: two parameter objects holding the same key/value pairs, in whatever
\* field order, get the same key under the same namespace.
C6_KeyOrderIndependent ==
    (kout # <<>> /\ Pairs(kin[2]) = Pairs(kin[3])) => kout[1] = kout[2]

\* Two objects with the same two properties in opposite orders were keyed.
C6_Witness ==
    /\ kout # <<>>
    /\ Len(kin[2]) = 2
    /\ kin[3] = <<kin[2][2], kin[2][1]>>
    /\ kout[1] = kout[2]
    /\ Len(kout[1]) = 7

(***************************************************************************)
(* Persistence and the values the services return.                         *)
(***************************************************************************)
MaxVersion == 1      \* updates a movie row receives

MissingMovie == "m0"           \* an id no row has
MovieIds == Movies \cup {MissingMovie}
MovieOrder == <<"m1", "m2">>   \* the movie rows by createdAt, ascending

\* A Movie row as the ORM returns it: createdAt is a Date.
MovieValue(m, v) ==
    Obj([id |-> Str(m), title |-> Num(v), createdAt |-> DateV(1)])

\* `if (cached)` on a parsed value
Truthy(v) ==
    /\ v.t # "null"
    /\ ~(v.t = "num" /\ v.n = 0)
    /\ ~(v.t = "str" /\ v.s = "")

\* The value of a property of a parameter object, with its default.
ParamOf(p, name, default) ==
    IF \E i \in DOMAIN p : p[i][1] = name /\ p[i][2] # "undefined"
    THEN p[CHOOSE i \in DOMAIN p : p[i][1] = name][2]
    ELSE default

NumberOf(text) == IF text = "2" THEN 2 ELSE 1

Min2(a, b) == IF a <= b THEN a ELSE b

\* skip / take of the ORM
Slice(rows, skip, take) == SubSeq(rows, skip + 1, Min2(Len(rows), skip + take))

Pagination(page, limit, total) ==
    Obj([page |-> Num(page), limit |-> Num(limit), total |-> Num(total)])

\* movieRepository.findById
FindById(db, m) == IF m \in DOMAIN db THEN MovieValue(m, db[m]) ELSE JSNull

\* movieRepository.exists
Exists(db, m) == m \in DOMAIN db

\* movieRepository.update
Update(db, m) == [db EXCEPT ![m] = @ + 1]

\* movieRepository.findAll
FindAll(db, p) ==
    LET page == NumberOf(ParamOf(p, "page", "1"))
        limit == NumberOf(ParamOf(p, "limit", "1"))
        ids == Slice(MovieOrder, (page - 1) * limit, limit)
    IN Obj([data |-> Arr([i \in DOMAIN ids |-> MovieValue(ids[i], db[ids[i]])]),
            pagination |-> Pagination(page, limit, Len(MovieOrder))])

\* index.search of the search engine, an external collaborator whose
\* documents the model does not follow: the hits are the ids it matches.
IndexSearch(p) ==
    Obj([data |-> Arr(<<Str("m1")>>),
         query |-> Str(ParamOf(p, "q", ""))])

\* What a service call comes to: the store and the rows it leaves, what it
\* returns, the error it raises ("none" when it returns), whether a store
\* call it made was not answered, whether it read persistence, whether it
\* was served from the cache, whether it wrote persistence.
Outcome(s, db, res, err, failed, dbRead, hit, wrote) ==
    [store |-> s, db |-> db, res |-> res, err |-> err, failed |-> failed,
     dbRead |-> dbRead, hit |-> hit, wrote |-> wrote]

(***************************************************************************)
(* MovieService, as it calls the redis client itself.  F holds the store   *)
(* calls of the handler (numbered in program order) that are not answered; *)
(* an unanswered call rejects and, nothing catching it, so does the        *)
(* handler.                                                                *)
(***************************************************************************)
\* getMovieById
RedisGetMovieById(s, db, m, F, t) ==
    LET key == MovieKey(m)
        movie == FindById(db, m)
    IN IF 1 \in F THEN Outcome(s, db, JSNull, "store", TRUE, FALSE, FALSE, FALSE)
       ELSE IF RedisGet(s, key) # Nil /\ ParseThrows(RedisGet(s, key))
       THEN Outcome(s, db, JSNull, "parse", FALSE, FALSE, FALSE, FALSE)
       ELSE IF RedisGet(s, key) # Nil
       THEN Outcome(s, db, Parse(RedisGet(s, key)), "none", FALSE, FALSE, TRUE, FALSE)
       ELSE IF movie = JSNull
       THEN Outcome(s, db, JSNull, "notfound", FALSE, TRUE, FALSE, FALSE)
       ELSE IF 2 \in F
       THEN Outcome(s, db, JSNull, "store", TRUE, TRUE, FALSE, FALSE)
       ELSE Outcome(RedisSetex(s, key, 300, Stringify(movie), t), db, movie,
                    "none", FALSE, TRUE, FALSE, FALSE)

\* getMovies
RedisGetMovies(s, db, p, F, t) ==
    LET key == StringifiedKey("movies:list:", p)
        result == FindAll(db, p)
    IN IF 1 \in F THEN Outcome(s, db, JSNull, "store", TRUE, FALSE, FALSE, FALSE)
       ELSE IF RedisGet(s, key) # Nil /\ ParseThrows(RedisGet(s, key))
       THEN Outcome(s, db, JSNull, "parse", FALSE, FALSE, FALSE, FALSE)
       ELSE IF RedisGet(s, key) # Nil
       THEN Outcome(s, db, Parse(RedisGet(s, key)), "none", FALSE, FALSE, TRUE, FALSE)
       ELSE IF 2 \in F
       THEN Outcome(s, db, JSNull, "store", TRUE, TRUE, FALSE, FALSE)
       ELSE Outcome(RedisSetex(s, key, 60, Stringify(result), t), db, result,
                    "none", FALSE, TRUE, FALSE, FALSE)

\* updateMovie
RedisUpdateMovie(s, db, m, F) ==
    IF ~Exists(db, m)
    THEN Outcome(s, db, JSNull, "notfound", FALSE, TRUE, FALSE, FALSE)
    ELSE IF 1 \in F
    THEN Outcome(s, Update(db, m), JSNull, "store", TRUE, TRUE, FALSE, TRUE)
    ELSE Outcome(RedisDel(s, {MovieKey(m)}), Update(db, m),
                 FindById(Update(db, m), m), "none", FALSE, TRUE, FALSE, TRUE)

(***************************************************************************)
(* MovieService and SearchService, as they go through CacheService.        *)
(***************************************************************************)
\* getMovieById
CsGetMovieById(s, db, m, F, t) ==
    LET key == MovieKey(m)
        cached == CsGet(s, key, 1 \notin F)
        movie == FindById(db, m)
    IN IF 1 \in F /\ GetThrows(FALSE)
       THEN Outcome(s, db, JSNull, "store", TRUE, FALSE, FALSE, FALSE)
       ELSE IF Truthy(cached)
       THEN Outcome(s, db, cached, "none", FALSE, FALSE, TRUE, FALSE)
       ELSE IF movie = JSNull
       THEN Outcome(s, db, JSNull, "notfound", 1 \in F, TRUE, FALSE, FALSE)
       ELSE IF 2 \in F /\ SetThrows(FALSE)
       THEN Outcome(s, db, JSNull, "store", TRUE, TRUE, FALSE, FALSE)
       ELSE Outcome(CsSet(s, key, movie, TTL_MEDIUM, t, 2 \notin F), db, movie,
                    "none", F # {}, TRUE, FALSE, FALSE)

\* A read through the cache: getMovies and searchMovies have this one shape.
CsReadThrough(s, db, key, result, ttl, F, t) ==
    LET cached == CsGet(s, key, 1 \notin F)
    IN IF 1 \in F /\ GetThrows(FALSE)
       THEN Outcome(s, db, JSNull, "store", TRUE, FALSE, FALSE, FALSE)
       ELSE IF Truthy(cached)
       THEN Outcome(s, db, cached, "none", FALSE, FALSE, TRUE, FALSE)
       ELSE IF 2 \in F /\ SetThrows(FALSE)
       THEN Outcome(s, db, JSNull, "store", TRUE, TRUE, FALSE, FALSE)
       ELSE Outcome(CsSet(s, key, result, ttl, t, 2 \notin F), db, result,
                    "none", F # {}, TRUE, FALSE, FALSE)

\* getMovies
CsGetMovies(s, db, p, F, t) ==
    CsReadThrough(s, db, GenerateKey("movies:list:", p), FindAll(db, p),
                  TTL_SHORT, F, t)

\* SearchService.searchMovies; the search engine is what it reads.
CsSearchMovies(s, db, p, F, t) ==
    CsReadThrough(s, db, GenerateKey("search:", p), IndexSearch(p),
                  TTL_SHORT * 2, F, t)

\* updateMovie
CsUpdateMovie(s, db, m, F) ==
    IF ~Exists(db, m)
    THEN Outcome(s, db, JSNull, "notfound", FALSE, TRUE, FALSE, FALSE)
    ELSE IF InvalidateThrows(5, F)
    THEN Outcome(CsInvalidateMovie(s, m, F), Update(db, m), JSNull, "store",
                 TRUE, TRUE, FALSE, TRUE)
    ELSE Outcome(CsInvalidateMovie(s, m, F), Update(db, m),
                 FindById(Update(db, m), m), "none", F # {}, TRUE, FALSE, TRUE)

(***************************************************************************)
(* SpecMovie: the Movie and Search services of one deployment.             *)
(***************************************************************************)
ListQueries ==
    {<< <<"page", "1">>, <<"limit", "1">> >>,
     << <<"limit", "1">>, <<"page", "1">> >>,
     << <<"page", "2">>, <<"limit", "1">> >>}

SearchQueries == {<< <<"q", "1">> >>, << <<"q", "2">> >>}

InitMovie ==
    /\ impl \in {"redis", "cacheService"}
    /\ movies = [m \in Movies |-> 0]
    /\ store = <<>>
    /\ hist = <<>>
    /\ written = <<>>
    /\ favorites = <<>>
    /\ now = 0
    /\ max = 1
    /\ timeWindow = 1
    /\ zset = {}
    /\ zexp = 0
    /\ queue = <<>>
    /\ req = <<>>
    /\ nextId = 1
    /\ kin = <<>>
    /\ kout = <<>>
    /\ scan = NoScan
    /\ task = [mut |-> NoTask, rd |-> NoTask]
    /\ ratings = NoRatings

\* The record kept of a Movie or Search service call.  had: what the cache
\* held when the call was made (the entry of movie m, the list entries, the
\* search entries).
\* q: the query parameters of a getMovies call; prevq: those of the call
\* before it when that was a getMovies call that returned a result, the store
\* answering.
MovieCall(op, m, q, o) ==
    [op |-> op, m |-> m, res |-> o.res, err |-> o.err, failed |-> o.failed,
     dbRead |-> o.dbRead, hit |-> o.hit, wrote |-> o.wrote,
     q |-> q,
     prevq |-> IF /\ hist # <<>>
                  /\ Last.op = "getMovies" /\ op = "getMovies"
                  /\ Last.err = "none" /\ ~Last.failed
               THEN Last.q ELSE <<>>,
     had |-> [movie |-> MovieKey(m) \in DOMAIN store,
              corrupt |-> /\ MovieKey(m) \in DOMAIN store
                          /\ ParseThrows(store[MovieKey(m)].val),
              lists |-> Cardinality(ScanMatch(store, <<"movies:list:">>)),
              searches |-> Cardinality(ScanMatch(store, <<"search:">>))]]

MovieServed(op, m, q, o) ==
    /\ store' = o.store
    /\ movies' = o.db
    /\ hist' = <<MovieCall(op, m, q, o)>>
    /\ UNCHANGED <<rlVars, keyVars, written, favorites, impl, scan, task, ratings>>

GetMovieById ==
    \E m \in MovieIds, F \in FailSets(2) :
        MovieServed("getMovieById", m, <<>>,
                    IF impl = "redis"
                    THEN RedisGetMovieById(store, movies, m, F, now)
                    ELSE CsGetMovieById(store, movies, m, F, now))

GetMovies ==
    \E p \in ListQueries, F \in FailSets(2) :
        MovieServed("getMovies", "", p,
                    IF impl = "redis"
                    THEN RedisGetMovies(store, movies, p, F, now)
                    ELSE CsGetMovies(store, movies, p, F, now))

SearchMovies ==
    \E p \in SearchQueries, F \in FailSets(2) :
        MovieServed("searchMovies", "", <<>>, CsSearchMovies(store, movies, p, F, now))

UpdateMovie ==
    \E m \in MovieIds :
        /\ m \in DOMAIN movies => movies[m] < MaxVersion
        /\ IF impl = "redis"
           THEN \E F \in FailSets(1) :
                    MovieServed("updateMovie", m, <<>>, RedisUpdateMovie(store, movies, m, F))
           ELSE \E F \in FailSets(5) :
                    MovieServed("updateMovie", m, <<>>, CsUpdateMovie(store, movies, m, F))

\* The payload of a single-movie entry is damaged in the store (another
\* client of the store, a truncated write); its expiry stays.
CorruptEntry ==
    /\ \E k \in {MovieKey(m) : m \in Movies} \cap DOMAIN store :
        /\ ~ParseThrows(store[k].val)
        /\ store' = [store EXCEPT ![k].val = Corrupt]
    /\ UNCHANGED <<rlVars, keyVars, written, movies, favorites, hist, impl, scan,
                   task, ratings>>

NextMovie ==
    \/ GetMovieById
    \/ GetMovies
    \/ SearchMovies
    \/ UpdateMovie
    \/ CorruptEntry

SpecMovie == InitMovie /\ [][NextMovie]_vars

\* C4 (as claimed): when movie M is cached under movie:M and movie-list and
\* search-result entries exist, then right after updateMovie(M, data) has
\* returned, with the store answering, movie:M is absent and so is every key
\* matching movies:list:* and every key matching search:*.
C4_UpdatePurgesMovieListsSearches ==
    (/\ hist # <<>>
     /\ Last.op = "updateMovie" /\ Last.err = "none" /\ ~Last.failed
     /\ Last.had.movie /\ Last.had.lists > 0 /\ Last.had.searches > 0)
    => /\ MovieKey(Last.m) \notin DOMAIN store
       /\ ScanMatch(store, <<"movies:list:">>) = {}
       /\ ScanMatch(store, <<"search:">>) = {}

(***************************************************************************)
(* Favorite repository and FavoriteService.  The rows of a user are kept   *)
(* newest first: createdAt is set when the row is created, and the         *)
(* creation instants of one user's rows are distinct.                      *)
(***************************************************************************)
FavLimits == {1, 2}     \* values of limit
FavPages == {1, 2}      \* values of page

\* A Favorite row with its movie (include: { movie: true }).
FavoriteValue(db, m) ==
    Obj([movieId |-> Str(m), movie |-> MovieValue(m, db[m])])

\* favoriteRepository.isFavorite
IsFavorite(fv, u, m) == \E i \in DOMAIN fv[u] : fv[u][i] = m

\* favoriteRepository.addFavorite
RepoAddFavorite(fv, u, m) == [fv EXCEPT ![u] = <<m>> \o @]

\* favoriteRepository.removeFavorite
RepoRemoveFavorite(fv, u, m) ==
    [fv EXCEPT ![u] = SelectSeq(@, LAMBDA x : x # m)]

\* favoriteRepository.getUserFavorites: orderBy createdAt desc, skip, take
RepoGetUserFavorites(fv, db, u, page, limit) ==
    LET ids == Slice(fv[u], (page - 1) * limit, limit)
    IN Obj([data |-> Arr([i \in DOMAIN ids |-> FavoriteValue(db, ids[i])]),
            pagination |-> Pagination(page, limit, Len(fv[u]))])

KeepsEntry(s, u) == s

\* The invalidation of addFavorite and removeFavorite:
\* redis.del(`favorites:user:${userId}`)
DelUserFavorites(s, u) == RedisDel(s, {FavoritesUserKey(u)})

\* FavoriteService.addFavorite.  The outcome's db is the favorites table.
SvcAddFavorite(s, fv, db, u, m, F) ==
    IF FindById(db, m) = JSNull
    THEN Outcome(s, fv, JSNull, "notfound", FALSE, TRUE, FALSE, FALSE)
    ELSE IF IsFavorite(fv, u, m)
    THEN Outcome(s, fv, JSNull, "conflict", FALSE, TRUE, FALSE, FALSE)
    ELSE IF 1 \in F
    THEN Outcome(s, RepoAddFavorite(fv, u, m), JSNull, "store",
                 TRUE, TRUE, FALSE, TRUE)
    ELSE Outcome(DelUserFavorites(s, u), RepoAddFavorite(fv, u, m),
                 Obj([movieId |-> Str(m)]), "none", FALSE, TRUE, FALSE, TRUE)

\* FavoriteService.removeFavorite
SvcRemoveFavorite(s, fv, u, m, F) ==
    IF ~IsFavorite(fv, u, m)
    THEN Outcome(s, fv, JSNull, "conflict", FALSE, TRUE, FALSE, FALSE)
    ELSE IF 1 \in F
    THEN Outcome(s, RepoRemoveFavorite(fv, u, m), JSNull, "store",
                 TRUE, TRUE, FALSE, TRUE)
    ELSE Outcome(DelUserFavorites(s, u), RepoRemoveFavorite(fv, u, m),
                 JSNull, "none", FALSE, TRUE, FALSE, TRUE)

\* FavoriteService.getUserFavorites: the first page only goes through the
\* cache, under a key that does not hold the limit.
SvcGetUserFavorites(s, fv, db, u, page, limit, F, t) ==
    LET key == FavoritesUserKey(u)
        result == RepoGetUserFavorites(fv, db, u, page, limit)
    IN IF page # 1
       THEN Outcome(s, fv, result, "none", FALSE, TRUE, FALSE, FALSE)
       ELSE IF 1 \in F
       THEN Outcome(s, fv, JSNull, "store", TRUE, FALSE, FALSE, FALSE)
       ELSE IF RedisGet(s, key) # Nil /\ ParseThrows(RedisGet(s, key))
       THEN Outcome(s, fv, JSNull, "parse", FALSE, FALSE, FALSE, FALSE)
       ELSE IF RedisGet(s, key) # Nil
       THEN Outcome(s, fv, Parse(RedisGet(s, key)), "none", FALSE, FALSE, TRUE, FALSE)
       ELSE IF 2 \in F
       THEN Outcome(s, fv, JSNull, "store", TRUE, TRUE, FALSE, FALSE)
       ELSE Outcome(RedisSetex(s, key, 300, Stringify(result), t), fv, result,
                    "none", FALSE, TRUE, FALSE, FALSE)

(***************************************************************************)
(* SpecFav: the Favorite service.                                          *)
(***************************************************************************)
InitFav ==
    /\ favorites = [u \in Users |-> <<>>]
    /\ movies = [m \in Movies |-> 0]
    /\ store = <<>>
    /\ hist = <<>>
    /\ written = <<>>
    /\ impl = "redis"
    /\ now = 0
    /\ max = 1
    /\ timeWindow = 1
    /\ zset = {}
    /\ zexp = 0
    /\ queue = <<>>
    /\ req = <<>>
    /\ nextId = 1
    /\ kin = <<>>
    /\ kout = <<>>
    /\ scan = NoScan
    /\ task = [mut |-> NoTask, rd |-> NoTask]
    /\ ratings = NoRatings

\* How far the last calls are into the sequence: addFavorite(u, m) returned
\* (1), then getUserFavorites(u, 1, _) ran (2), then it ran once more (3),
\* no other call in between and the store answering the reads; 0 otherwise.
Stage(op, u, page, o) ==
    IF op = "addFavorite"
    THEN (IF o.err = "none" THEN 1 ELSE 0)
    ELSE IF /\ op = "getUserFavorites" /\ page = 1 /\ ~o.failed
            /\ hist # <<>> /\ Last.stage \in {1, 2} /\ Last.u = u
    THEN Last.stage + 1
    ELSE 0

\* The record kept of a Favorite service call; fav is the movie the sequence
\* of calls started with.
FavCall(op, u, m, page, limit, o) ==
    [op |-> op, u |-> u, m |-> m, page |-> page, limit |-> limit,
     res |-> o.res, err |-> o.err, failed |-> o.failed, dbRead |-> o.dbRead,
     hit |-> o.hit, wrote |-> o.wrote,
     stage |-> Stage(op, u, page, o),
     fav |-> IF Stage(op, u, page, o) = 0 THEN ""
             ELSE IF op = "addFavorite" THEN m ELSE Last.fav]

FavServed(op, u, m, page, limit, o) ==
    /\ store' = o.store
    /\ favorites' = o.db
    /\ hist' = <<FavCall(op, u, m, page, limit, o)>>
    /\ UNCHANGED <<rlVars, keyVars, written, movies, impl, scan, task, ratings>>

AddFavorite ==
    \E u \in Users, m \in MovieIds, F \in FailSets(1) :
        FavServed("addFavorite", u, m, 0, 0,
                  SvcAddFavorite(store, favorites, movies, u, m, F))

RemoveFavorite ==
    \E u \in Users, m \in Movies, F \in FailSets(1) :
        FavServed("removeFavorite", u, m, 0, 0,
                  SvcRemoveFavorite(store, favorites, u, m, F))

GetUserFavorites ==
    \E u \in Users, page \in FavPages, limit \in FavLimits, F \in FailSets(2) :
        FavServed("getUserFavorites", u, "", page, limit,
                  SvcGetUserFavorites(store, favorites, movies, u, page, limit, F, now))

NextFav ==
    \/ AddFavorite
    \/ RemoveFavorite
    \/ GetUserFavorites

SpecFav == InitFav /\ [][NextFav]_vars

\* Whether the page a getUserFavorites call returned holds movie m.
Contains(res, m) ==
    /\ res.t = "obj"
    /\ \E i \in DOMAIN res.f.data.a : res.f.data.a[i].f.movieId = Str(m)

\* C5: after addFavorite(U, M) has returned, of two consecutive
\* getUserFavorites(U, page 1) calls with no operation in between (the store
\* answering them), the first reads persistence and its result contains M,
\* and the second is served from the cache without a persistence read and
\* its result contains M too.
C5_SecondReadServedFromCache ==
    hist # <<>> =>
        /\ Last.stage = 2 =>
              /\ Last.err = "none"
              /\ Last.dbRead /\ ~Last.hit
              /\ Contains(Last.res, Last.fav)
        /\ Last.stage = 3 =>
              /\ Last.err = "none"
              /\ Last.hit /\ ~Last.dbRead
              /\ Contains(Last.res, Last.fav)

\* The second read after the user's second favorite was added, the first
\* read having cached a page of one row: it is served from the cache and
\* holds the new favorite.
C5_Witness ==
    /\ hist # <<>>
    /\ Last.stage = 3
    /\ Last.hit /\ ~Last.dbRead
    /\ Len(favorites[Last.u]) = 2
    /\ Last.fav = favorites[Last.u][1]
    /\ Contains(Last.res, Last.fav)
    /\ Len(Last.res.f.data.a) = 1

\* C20 (as claimed): a page-1 list read with limit L2 is never answered from
\* an entry that a read with another limit populated: the page a
\* getUserFavorites call is served from the cache was made for its limit.
C20_HitMatchesLimit ==
    (/\ hist # <<>>
     /\ Last.op = "getUserFavorites"
     /\ Last.err = "none"
     /\ Last.hit)
        => Last.res.f.pagination.f.limit = Num(Last.limit)

\* C9 (as claimed): when the store does not answer a cache get, set or
\* delete, the service call does not fail because of it, and a mutation
\* whose persistence write succeeded returns successfully.
C9_StoreFailureNeverSurfaces ==
    (hist # <<>> /\ Last.failed) =>
        /\ Last.err # "store"
        /\ Last.op = "getUserFavorites" => Last.dbRead
        /\ Last.wrote => Last.err = "none"

\* C22 (as claimed): every entry a service has written to the cache was
\* stored with a TTL that is one of the four tiers.  The clock of SpecMovie
\* stands at the instant of the writes, so the time an entry has left is the
\* TTL it was stored with.
C22_EveryWriteUsesATier ==
    \A k \in DOMAIN store :
        \E ttl \in TTL : store[k].exp - now = ttl * MsPerSec

\* C21 (as claimed): a getMovies call whose parameters hold the same key/value
\* pairs as those of the getMovies call right before it, in another
\* declaration order, is a cache hit on the entry that call populated.
C21_ReorderedParamsHit ==
    (/\ hist # <<>>
     /\ Last.op = "getMovies" /\ Last.err = "none" /\ ~Last.failed
     /\ Last.prevq # <<>>
     /\ Last.prevq # Last.q
     /\ Pairs(Last.prevq) = Pairs(Last.q))
        => Last.hit /\ ~Last.dbRead

\* C11 (as claimed): a stored payload that cannot be deserialized is treated
\* as a miss: getMovieById of a movie whose entry is corrupt falls back to
\* persistence and returns the row, and raises no error.
C11_CorruptEntryIsMiss ==
    (/\ hist # <<>>
     /\ Last.op = "getMovieById" /\ Last.had.corrupt /\ ~Last.failed)
    => /\ Last.err = "none"
       /\ Last.dbRead /\ ~Last.hit
       /\ Last.res = FindById(movies, Last.m)

(***************************************************************************)
(* SpecScan: CacheService.deletePattern call by call.  The cursor of SCAN  *)
(* walks the key space once; each call traverses some of the keys not yet  *)
(* traversed and returns those that match, and the iteration is over when  *)
(* none is left (cursor "0").  No other client writes keys; the store      *)
(* itself drops a key when its expiry instant is reached, which can happen *)
(* between two calls.                                                      *)
(***************************************************************************)
ScanBatch == 2       \* keys one SCAN call traverses (COUNT, scaled down)

ScanKeys ==
    {ListKey(<<"q1">>), ListKey(<<"q2">>), ListKey(<<"q3">>), MovieKey("m1")}
ScanPatterns == {<<"movies:list:">>, <<"search:">>}
ScanPoints == {60000}

InitScan ==
    /\ store = <<>>
    /\ scan = NoScan
    /\ now = 0
    /\ hist = <<>>
    /\ written = <<>>
    /\ movies = <<>>
    /\ favorites = <<>>
    /\ impl = "cacheService"
    /\ max = 1
    /\ timeWindow = 1
    /\ zset = {}
    /\ zexp = 0
    /\ queue = <<>>
    /\ req = <<>>
    /\ nextId = 1
    /\ kin = <<>>
    /\ kout = <<>>
    /\ task = [mut |-> NoTask, rd |-> NoTask]
    /\ ratings = NoRatings

nonScan == <<max, timeWindow, zset, zexp, queue, req, nextId,
             written, movies, favorites, kin, kout, impl, task, ratings>>

\* An entry is written while no deletePattern call runs.
ScanPopulate ==
    /\ scan.pc = "idle"
    /\ \E k \in ScanKeys, ttl \in TTLTiers :
        /\ k \notin DOMAIN store
        /\ store' = CsSet(store, k, Num(1), ttl, now, TRUE)
    /\ UNCHANGED <<now, scan, hist, nonScan>>

\* Time passes; the store drops what has expired.
ScanTick ==
    /\ \E t \in ScanPoints :
        /\ t > now
        /\ now' = t
        /\ store' = Expire(store, t)
    /\ UNCHANGED <<scan, hist, nonScan>>

\* deletePattern(pattern) is called: cursor = '0', deletedCount = 0.
\* deleted (not a variable of the code) collects the keys DEL removes.
DeletePatternStart ==
    /\ scan.pc = "idle"
    /\ \E pattern \in ScanPatterns :
        scan' = [pc |-> "scan", pattern |-> pattern, unvisited |-> DOMAIN store,
                 keys |-> {}, deletedCount |-> 0, deleted |-> {},
                 failed |-> FALSE, ret |-> 0, err |-> "none"]
    /\ UNCHANGED <<now, store, hist, nonScan>>

ReturnZero(sc) ==
    [sc EXCEPT !.pc = "done", !.failed = TRUE, !.ret = 0, !.err = "none"]

\* The catch block of deletePattern: log, return 0.
DeletePatternCatch(sc) == ReturnZero(sc)

\* Where the loop goes after a batch: `while (cursor !== '0')`, then
\* `return deletedCount`.
LoopOrReturn(sc) ==
    IF sc.unvisited # {} THEN [sc EXCEPT !.pc = "scan"]
    ELSE [sc EXCEPT !.pc = "done", !.ret = sc.deletedCount]

\* redis.scan(cursor, 'MATCH', pattern, 'COUNT', 100)
ScanStep ==
    /\ scan.pc = "scan"
    /\ \/ \E V \in SUBSET scan.unvisited :
            /\ Cardinality(V) <= ScanBatch
            /\ V # {} \/ scan.unvisited = {}
            /\ LET keys == {k \in V \cap DOMAIN store : Matches(scan.pattern, k)}
                   sc == [scan EXCEPT !.unvisited = @ \ V, !.keys = keys]
               IN scan' = IF keys # {} THEN [sc EXCEPT !.pc = "del"]
                          ELSE LoopOrReturn(sc)
       \/ scan' = DeletePatternCatch(scan)
    /\ UNCHANGED <<now, store, hist, nonScan>>

\* redis.del(...keys); deletedCount += keys.length
DelStep ==
    /\ scan.pc = "del"
    /\ \/ /\ store' = RedisDel(store, scan.keys)
          /\ scan' = LoopOrReturn(
                        [scan EXCEPT !.deletedCount = @ + Cardinality(scan.keys),
                                     !.deleted = @ \cup (scan.keys \cap DOMAIN store),
                                     !.keys = {}])
       \/ /\ scan' = DeletePatternCatch(scan)
          /\ UNCHANGED store
    /\ UNCHANGED <<now, hist, nonScan>>

\* The caller has the result; another call can be made.
DeletePatternReturn ==
    /\ scan.pc = "done"
    /\ scan' = NoScan
    /\ hist' = <<[op |-> "deletePattern", pattern |-> scan.pattern,
                  ret |-> scan.ret, failed |-> scan.failed]>>
    /\ UNCHANGED <<now, store, nonScan>>

NextScan ==
    \/ ScanPopulate
    \/ ScanTick
    \/ DeletePatternStart
    \/ ScanStep
    \/ DelStep
    \/ DeletePatternReturn

SpecScan == InitScan /\ [][NextScan]_vars

\* C12 (as claimed): with no other client writing keys and the store
\* answering, deletePattern(glob) returns the number of keys it deleted,
\* leaves no key matching glob in the store and deletes no key that does not
\* match glob.
C12_DeletePatternCountsAndPurges ==
    (scan.pc = "done" /\ ~scan.failed) =>
        /\ scan.ret = Cardinality(scan.deleted)
        /\ ScanMatch(store, scan.pattern) = {}
        /\ \A k \in scan.deleted : Matches(scan.pattern, k)

\* C13 (as claimed): when the pass is interrupted by a store failure after
\* some batches were deleted, deletePattern does not fail and returns the
\* count of keys deleted up to the interruption.
C13_PartialCountReturned ==
    (scan.pc = "done" /\ scan.failed /\ scan.deleted # {}) =>
        /\ scan.err = "none"
        /\ scan.ret = Cardinality(scan.deleted)

(***************************************************************************)
(* SpecOps: the mutating operations of the services, one store or          *)
(* persistence call at a time, next to the reads that populate the cache.  *)
(* A mutation is the sequence of the calls it awaits, in program order.    *)
(***************************************************************************)
OpUser == "u1"       \* the user the operations are made for
OpMovie == "m1"      \* the movie the operations are about

RatingsUserKey(u) == <<"ratings:", "user:", u>>
WatchedUserPageKey(u, page) == <<"watched:", "user:", u, ":page:", page>>
WatchedStatsKey(u) == <<"watched:", "stats:", u>>
CommentsUserPageKey(u, page) == <<"comments:", "user:", u, ":page:", page>>
CommentsMoviePageKey(m, page) == <<"comments:", "movie:", m, ":page:", page>>

\* One awaited call of a mutation.
\*   guard            a check that rejects the operation (validation, a row
\*                    that is missing or already there, ownership)
\*   write            a persistence write; table names the rows it changes
\*   del              redis.del of keys, called on the client directly (one
\*                    call, or several under one Promise.all)
\*   invalidate...    a call of the invalidation coordinator
\* Write("movie") changes the row of OpMovie, Write("other") another row.
Ins(k, table, keys) == [k |-> k, table |-> table, keys |-> keys]
Guard == Ins("guard", "", {})
Write(table) == Ins("write", table, {})
Del(keys) == Ins("del", "", keys)
InvalidateMovie == Ins("invalidateMovie", "", {})
InvalidateUser == Ins("invalidateUser", "", {})
InvalidateListsAndSearches == Ins("invalidateLists+invalidateSearches", "", {})
\* Promise.all([invalidateMovie(movieId), cacheService.delete(...)])
InvalidateMovieAndDelete(key) == Ins("invalidateMovie+delete", "", {key})

Ops ==
    {"createMovie", "updateMovie", "deleteMovie", "upsertRating", "deleteRating",
     "createComment", "updateComment", "deleteComment", "addFavorite",
     "removeFavorite", "markAsWatched", "unmarkAsWatched"}

\* The calls of each mutation, for user OpUser and movie OpMovie, in the
\* two generations of the Movie, Comment and Watched services; the Rating
\* service exists in the CacheService generation only and the Favorite
\* service in the redis generation only.
RedisMovieProgram(op) ==
    IF op = "createMovie" THEN <<Write("other")>>
    ELSE <<Guard, Write("movie"), Del({MovieKey(OpMovie)})>>

CsMovieProgram(op) ==
    IF op = "createMovie" THEN <<Write("other"), InvalidateListsAndSearches>>
    ELSE <<Guard, Write("movie"), InvalidateMovie>>

RatingProgram(op) ==
    IF op = "upsertRating"
    THEN <<Guard, Guard, Write("other"), Write("movie"),
           InvalidateMovieAndDelete(RatingsUserKey(OpUser))>>
    ELSE <<Guard, Write("other"), Write("movie"),
           InvalidateMovieAndDelete(RatingsUserKey(OpUser))>>

RedisCommentProgram(op) ==
    IF op = "createComment"
    THEN <<Guard, Write("other"), Del({CommentsMovieKey(OpMovie)}),
           Del({MovieKey(OpMovie)})>>
    ELSE <<Guard, Guard, Write("other"),
           Del({CommentsMovieKey(OpMovie), CommentsUserKey(OpUser),
                MovieKey(OpMovie)})>>

CsCommentProgram(op) ==
    IF op = "createComment" THEN <<Guard, Write("other"), InvalidateMovie>>
    ELSE <<Guard, Guard, Write("other"), InvalidateMovie>>

FavoriteProgram(op) ==
    IF op = "addFavorite"
    THEN <<Guard, Guard, Write("other"), Del({FavoritesUserKey(OpUser)})>>
    ELSE <<Guard, Write("other"), Del({FavoritesUserKey(OpUser)})>>

RedisWatchedProgram(op) ==
    IF op = "markAsWatched"
    THEN <<Guard, Guard, Write("other"), Del({WatchedUserKey(OpUser)}),
           Del({WatchedStatsKey(OpUser)})>>
    ELSE <<Guard, Write("other"), Del({WatchedUserKey(OpUser)}),
           Del({WatchedStatsKey(OpUser)})>>

CsWatchedProgram(op) ==
    IF op = "markAsWatched"
    THEN <<Guard, Guard, Write("other"), InvalidateUser>>
    ELSE <<Guard, Write("other"), InvalidateUser>>

DeleteBeforeWrite(variant, op) ==
    <<Guard, InvalidateMovieAndDelete(RatingsUserKey(OpUser)),
      Write("other"), Write("movie")>>

\* The calls of mutation op in the generation variant of its service.
Program(variant, op) ==
    CASE op \in {"createMovie", "updateMovie", "deleteMovie"} ->
            IF variant = "redis" THEN RedisMovieProgram(op) ELSE CsMovieProgram(op)
      [] op \in {"upsertRating", "deleteRating"} -> RatingProgram(op)
      [] op \in {"createComment", "updateComment", "deleteComment"} ->
            IF variant = "redis" THEN RedisCommentProgram(op)
            ELSE CsCommentProgram(op)
      [] op \in {"addFavorite", "removeFavorite"} -> FavoriteProgram(op)
      [] op \in {"markAsWatched", "unmarkAsWatched"} ->
            IF variant = "redis" THEN RedisWatchedProgram(op)
            ELSE CsWatchedProgram(op)

\* The list reads that go through the cache (page 1), and the key each reads
\* and populates.
ListReads ==
    {"getUserRatings", "getUserWatchedMovies", "getUserWatchedStats",
     "getUserComments", "getMovieComments", "getUserFavorites"}

ReadKey(variant, read) ==
    CASE read = "getUserRatings" -> RatingsUserPageKey(OpUser, "1")
      [] read = "getUserWatchedMovies" ->
            IF variant = "redis" THEN WatchedUserKey(OpUser)
            ELSE WatchedUserPageKey(OpUser, "1")
      [] read = "getUserWatchedStats" -> WatchedStatsKey(OpUser)
      [] read = "getUserComments" ->
            IF variant = "redis" THEN CommentsUserKey(OpUser)
            ELSE CommentsUserPageKey(OpUser, "1")
      [] read = "getMovieComments" ->
            IF variant = "redis" THEN CommentsMovieKey(OpMovie)
            ELSE CommentsMoviePageKey(OpMovie, "1")
      [] read = "getUserFavorites" -> FavoritesUserKey(OpUser)

InitOps ==
    /\ impl \in {"redis", "cacheService"}
    /\ movies = [m \in Movies |-> 0]
    /\ store = <<>>
    /\ task = [mut |-> NoTask, rd |-> NoTask]
    /\ ratings = NoRatings
    /\ scan = NoScan
    /\ now = 0
    /\ hist = <<>>
    /\ written = <<>>
    /\ favorites = <<>>
    /\ max = 1
    /\ timeWindow = 1
    /\ zset = {}
    /\ zexp = 0
    /\ queue = <<>>
    /\ req = <<>>
    /\ nextId = 1
    /\ kin = <<>>
    /\ kout = <<>>

nonOps == <<now, max, timeWindow, zset, zexp, queue, req, nextId,
            written, favorites, hist, kin, kout, impl, scan, ratings>>

\* Whether the operation writes the movie row.
WritesMovie(prog) == \E i \in DOMAIN prog : prog[i] = Write("movie")

\* The task after the call at t.at has completed.
Advance(t, prog) ==
    IF t.at = Len(prog) THEN [t EXCEPT !.pc = "done"]
    ELSE [t EXCEPT !.at = @ + 1]

\* The TTL each cached list read stores its entry with: CacheService.TTL.MEDIUM,
\* and twice that (600 in the redis generation) for the watch statistics.
ReadTTL(variant, read) ==
    IF read = "getUserWatchedStats" THEN TTL_MEDIUM * 2 ELSE TTL_MEDIUM

\* A list read while no mutation runs: a miss reads persistence and
\* populates the entry; a hit changes nothing.
ListRead ==
    /\ task.mut.pc = "idle"
    /\ \E read \in ListReads :
        /\ ReadKey(impl, read) \notin DOMAIN store
        /\ store' = RedisSetex(store, ReadKey(impl, read), ReadTTL(impl, read),
                               Stringify(Num(1)), now)
    /\ UNCHANGED <<movies, task, nonOps>>

\* A mutation is called.  wrote counts the persistence writes it has
\* completed, dels the cache deletes it has issued.
MutStart ==
    /\ task.mut.pc = "idle"
    /\ \E op \in Ops :
        /\ WritesMovie(Program(impl, op)) => movies[OpMovie] < MaxVersion
        /\ task' = [task EXCEPT !.mut =
                      [pc |-> "run", op |-> op, at |-> 1, wrote |-> 0,
                       dels |-> 0, err |-> "none", failed |-> FALSE]]
    /\ UNCHANGED <<store, movies, nonOps>>

\* A check of the mutation passes, or rejects the operation.
MutGuard ==
    /\ task.mut.pc = "run"
    /\ Program(impl, task.mut.op)[task.mut.at].k = "guard"
    /\ \/ task' = [task EXCEPT !.mut = Advance(@, Program(impl, task.mut.op))]
       \/ task' = [task EXCEPT !.mut = [@ EXCEPT !.pc = "done", !.err = "rejected"]]
    /\ UNCHANGED <<store, movies, nonOps>>

\* A persistence write of the mutation completes.
MutWrite ==
    /\ task.mut.pc = "run"
    /\ Program(impl, task.mut.op)[task.mut.at].k = "write"
    /\ movies' = IF Program(impl, task.mut.op)[task.mut.at].table = "movie"
                 THEN Update(movies, OpMovie) ELSE movies
    /\ task' = [task EXCEPT !.mut =
                  Advance([@ EXCEPT !.wrote = @ + 1], Program(impl, task.mut.op))]
    /\ UNCHANGED <<store, nonOps>>

\* The store a coordinator call leaves; F holds its calls the store does not
\* answer.
Coordinated(s, ins, F) ==
    CASE ins.k = "invalidateMovie" -> CsInvalidateMovie(s, OpMovie, F)
      [] ins.k = "invalidateUser" -> CsInvalidateUser(s, OpUser, F)
      [] ins.k = "invalidateLists+invalidateSearches" ->
            CsInvalidateSearches(CsInvalidateLists(s, F), F)
      [] ins.k = "invalidateMovie+delete" ->
            CsDelete(CsInvalidateMovie(s, OpMovie, F),
                     CHOOSE k \in ins.keys : TRUE, F = {})

\* A cache delete of the mutation: redis.del on the client rejects when the
\* store does not answer, and the operation with it; the coordinator logs
\* and goes on.
MutDelete ==
    /\ task.mut.pc = "run"
    /\ LET prog == Program(impl, task.mut.op)
           ins == prog[task.mut.at]
           issued == [task.mut EXCEPT !.dels = @ + 1]
       IN /\ ins.k \notin {"guard", "write"}
          /\ IF ins.k = "del"
             THEN \/ /\ store' = RedisDel(store, ins.keys)
                     /\ task' = [task EXCEPT !.mut = Advance(issued, prog)]
                  \/ /\ store' = store
                     /\ task' = [task EXCEPT !.mut =
                                   [issued EXCEPT !.pc = "done", !.err = "store",
                                                  !.failed = TRUE]]
             ELSE \E F \in {{}, 1..5} :
                     /\ store' = Coordinated(store, ins, F)
                     /\ task' = [task EXCEPT !.mut =
                                   Advance([issued EXCEPT !.failed = (F # {})], prog)]
    /\ UNCHANGED <<movies, nonOps>>

\* The caller has the result of the mutation.
MutReturn ==
    /\ task.mut.pc = "done"
    /\ task' = [task EXCEPT !.mut = NoTask]
    /\ UNCHANGED <<store, movies, nonOps>>

\* getMovieById(OpMovie), call by call: the cache is read ...
RdCheck ==
    /\ task.rd.pc = "idle"
    /\ task' = [task EXCEPT !.rd =
                  IF Truthy(CsGet(store, MovieKey(OpMovie), TRUE))
                  THEN [pc |-> "done", hit |-> TRUE, seen |-> 0]
                  ELSE [pc |-> "missed", hit |-> FALSE, seen |-> 0]]
    /\ UNCHANGED <<store, movies, nonOps>>

\* ... on a miss the row is read from persistence ...
RdFind ==
    /\ task.rd.pc = "missed"
    /\ task' = [task EXCEPT !.rd = [@ EXCEPT !.pc = "found",
                                            !.seen = movies[OpMovie]]]
    /\ UNCHANGED <<store, movies, nonOps>>

\* ... and stored in the cache.
RdPopulate ==
    /\ task.rd.pc = "found"
    /\ store' = RedisSetex(store, MovieKey(OpMovie), TTL_MEDIUM,
                           Stringify(MovieValue(OpMovie, task.rd.seen)), now)
    /\ task' = [task EXCEPT !.rd = [@ EXCEPT !.pc = "done"]]
    /\ UNCHANGED <<movies, nonOps>>

\* The caller has the result of the read.
RdReturn ==
    /\ task.rd.pc = "done"
    /\ task' = [task EXCEPT !.rd = NoTask]
    /\ UNCHANGED <<store, movies, nonOps>>

NextOps ==
    \/ ListRead
    \/ MutStart
    \/ MutGuard
    \/ MutWrite
    \/ MutDelete
    \/ MutReturn
    \/ RdCheck
    \/ RdFind
    \/ RdPopulate
    \/ RdReturn

SpecOps == InitOps /\ [][NextOps]_vars

\* C15: in every mutating operation each cache delete is issued only after
\* the persistence writes of the operation have completed, and none is
\* issued when the operation is rejected before its write.
C15_DeleteAfterWrite ==
    task.mut.pc # "idle" =>
        /\ task.mut.dels > 0 =>
              /\ task.mut.wrote >= 1
              /\ \A i \in DOMAIN Program(impl, task.mut.op) :
                    Program(impl, task.mut.op)[i].k = "write"
                        => (task.mut.pc = "done" \/ i < task.mut.at)
        /\ task.mut.err = "rejected" => (task.mut.dels = 0 /\ task.mut.wrote = 0)

\* upsertRating has issued its invalidation after both of its writes, and
\* the invalidation removed the movie entry.
C15_Witness ==
    /\ task.mut.pc = "done"
    /\ task.mut.op = "upsertRating"
    /\ task.mut.err = "none" /\ ~task.mut.failed
    /\ task.mut.wrote = 2 /\ task.mut.dels = 1
    /\ movies[OpMovie] = 1
    /\ MovieKey(OpMovie) \notin DOMAIN store
    /\ task.rd.pc = "done" /\ ~task.rd.hit

\* The mutation has returned to its caller without an error, and every store
\* call of its invalidation was answered.
Returned(ops) ==
    /\ task.mut.pc = "done"
    /\ task.mut.op \in ops
    /\ task.mut.err = "none"
    /\ ~task.mut.failed

\* The cache holds an entry for OpMovie that is not the row persistence has.
StaleMovieEntry ==
    /\ MovieKey(OpMovie) \in DOMAIN store
    /\ RedisGet(store, MovieKey(OpMovie))
          # Stringify(MovieValue(OpMovie, movies[OpMovie]))

\* C16 (as claimed): whatever the interleaving of getMovieById with a
\* mutation of the same movie, once the invalidation of the mutation has
\* completed and the read has finished, the cache holds no entry of the movie
\* with pre-mutation data.
C16_NoStaleEntryAfterRace ==
    (/\ Returned({"updateMovie", "deleteMovie", "upsertRating", "deleteRating"})
     /\ task.rd.pc \in {"idle", "done"})
        => ~StaleMovieEntry

\* C17 (as claimed): right after upsertRating or deleteRating of OpUser has
\* returned, the entry getUserRatings(OpUser, page 1) reads is absent.
C17_RatingsListPurged ==
    Returned({"upsertRating", "deleteRating"})
        => ReadKey(impl, "getUserRatings") \notin DOMAIN store

\* C18 (as claimed): right after markAsWatched or unmarkAsWatched of OpUser
\* has returned, the entries getUserWatchedMovies(OpUser, page 1) and
\* getUserWatchedStats(OpUser) read are both absent.
C18_WatchedListAndStatsPurged ==
    Returned({"markAsWatched", "unmarkAsWatched"})
        => /\ ReadKey(impl, "getUserWatchedMovies") \notin DOMAIN store
           /\ ReadKey(impl, "getUserWatchedStats") \notin DOMAIN store

\* C19 (as claimed): right after createComment, updateComment or
\* deleteComment of OpUser has returned, the entry getUserComments(OpUser,
\* page 1) reads is absent.
C19_CommentsListPurged ==
    Returned({"createComment", "updateComment", "deleteComment"})
        => ReadKey(impl, "getUserComments") \notin DOMAIN store

(***************************************************************************)
(* SpecRoute: an inbound request on its way through a route: the hooks the *)
(* route declares, in order, then its handler, which calls the service.    *)
(***************************************************************************)
Routes ==
    {"GET /movies", "GET /movies/:id", "PUT /movies/:id",
     "POST /movies/:id/favorite"}

\* The hooks a route is registered with (onRequest, preHandler), in order.
\* buildApp registers the route plugins and no hook of its own.
RouteHooks(route) ==
    IF route = "POST /movies/:id/favorite" THEN <<"authenticate">> ELSE <<>>

\* The service call the handler of a route makes, for movie OpMovie and user
\* OpUser, the store answering.
Handler(route, s, db, fv, t) ==
    CASE route = "GET /movies" ->
            IF impl = "redis"
            THEN RedisGetMovies(s, db, << <<"page", "1">>, <<"limit", "1">> >>, {}, t)
            ELSE CsGetMovies(s, db, << <<"page", "1">>, <<"limit", "1">> >>, {}, t)
      [] route = "GET /movies/:id" ->
            IF impl = "redis" THEN RedisGetMovieById(s, db, OpMovie, {}, t)
            ELSE CsGetMovieById(s, db, OpMovie, {}, t)
      [] route = "PUT /movies/:id" ->
            IF impl = "redis" THEN RedisUpdateMovie(s, db, OpMovie, {})
            ELSE CsUpdateMovie(s, db, OpMovie, {})
      [] route = "POST /movies/:id/favorite" ->
            SvcAddFavorite(s, fv, db, OpUser, OpMovie, {})

\* The status the handler replies with.
StatusOf(route, err) ==
    CASE err = "none" -> IF route = "POST /movies/:id/favorite" THEN 201 ELSE 200
      [] err = "notfound" -> 404
      [] err = "conflict" -> 400
      [] OTHER -> 500

InitRoute ==
    /\ impl \in {"redis", "cacheService"}
    /\ movies = [m \in Movies |-> 0]
    /\ favorites = [u \in Users |-> <<>>]
    /\ store = <<>>
    /\ req = [r \in 1..MaxReq |->
                [pc |-> "idle", route |-> "", token |-> FALSE, at |-> 0,
                 limiter |-> "none", served |-> FALSE, code |-> 0]]
    /\ nextId = 1
    /\ now = 0
    /\ max = 1
    /\ timeWindow = 1
    /\ zset = {}
    /\ zexp = 0
    /\ queue = <<>>
    /\ hist = <<>>
    /\ written = <<>>
    /\ kin = <<>>
    /\ kout = <<>>
    /\ scan = NoScan
    /\ task = [mut |-> NoTask, rd |-> NoTask]
    /\ ratings = NoRatings

nonRoute == <<now, max, timeWindow, zset, zexp, queue, written, hist, kin, kout,
              impl, scan, task, ratings>>

\* The position of a request that has passed its hook number at - 1.
AfterHook(q) ==
    IF q.at > Len(RouteHooks(q.route)) THEN [q EXCEPT !.pc = "handler"]
    ELSE [q EXCEPT !.pc = "hook"]

\* A request arrives on a route, with or without a valid token.  limiter
\* tells what a limiter hook did with the request: "none" until one runs.
Inbound ==
    /\ nextId <= MaxReq
    /\ \E route \in Routes, token \in BOOLEAN :
        req' = [req EXCEPT ![nextId] =
                  AfterHook([@ EXCEPT !.route = route, !.token = token, !.at = 1])]
    /\ nextId' = nextId + 1
    /\ UNCHANGED <<store, movies, favorites, nonRoute>>

\* The authenticate hook: jwtVerify passes, or the hook replies 401 and the
\* handler is not run.
Authenticate ==
    /\ \E r \in 1..MaxReq :
        /\ req[r].pc = "hook"
        /\ RouteHooks(req[r].route)[req[r].at] = "authenticate"
        /\ req' = [req EXCEPT ![r] =
                     IF req[r].token THEN AfterHook([@ EXCEPT !.at = @ + 1])
                     ELSE [@ EXCEPT !.pc = "done", !.code = 401]]
    /\ UNCHANGED <<nextId, store, movies, favorites, nonRoute>>

\* The handler of the route runs the service call and replies.
Handle ==
    /\ \E r \in 1..MaxReq :
        /\ req[r].pc = "handler"
        /\ (req[r].route = "PUT /movies/:id" => movies[OpMovie] < MaxVersion)
        /\ LET o == Handler(req[r].route, store, movies, favorites, now)
           IN /\ store' = o.store
              /\ IF req[r].route = "POST /movies/:id/favorite"
                 THEN favorites' = o.db /\ movies' = movies
                 ELSE movies' = o.db /\ favorites' = favorites
              /\ req' = [req EXCEPT ![r] =
                           [@ EXCEPT !.pc = "done", !.served = TRUE,
                                     !.code = StatusOf(req[r].route, o.err)]]
    /\ UNCHANGED <<nextId, nonRoute>>

NextRoute ==
    \/ Inbound
    \/ Authenticate
    \/ Handle

SpecRoute == InitRoute /\ [][NextRoute]_vars

\* C26 (as claimed): the service runs only for a request the rate limiter has
\* checked and admitted.
C26_ServiceOnlyAfterLimiter ==
    \A r \in 1..MaxReq : req[r].served => req[r].limiter = "admitted"

(***************************************************************************)
(* SpecRate: upsertRating and deleteRating of the users on OpMovie, one    *)
(* awaited persistence call at a time, the calls of different users        *)
(* interleaving.  A number that need not be whole (the average) is kept as *)
(* a fraction.                                                             *)
(***************************************************************************)
MaxCalls == 2               \* rating calls each user makes
RatingValues == {3, 8, 11}  \* ratings submitted; 11 is out of range

RECURSIVE SumOf(_, _)
SumOf(rows, U) ==
    IF U = {} THEN 0
    ELSE LET u == CHOOSE x \in U : TRUE IN rows[u] + SumOf(rows, U \ {u})

\* ratingRepository.calculateMovieAverageRating: prisma.rating.aggregate with
\* _avg and _count; rows[u] = 0 when user u has no rating of the movie.
\*   averageRating: result._avg.rating || 0, ratingCount: result._count.rating
CalculateMovieAverageRating(rows) ==
    LET rated == {u \in DOMAIN rows : rows[u] # 0}
    IN [averageRating |->
            IF rated = {} THEN [num |-> 0, den |-> 1]
            ELSE [num |-> SumOf(rows, rated), den |-> Cardinality(rated)],
        ratingCount |-> Cardinality(rated)]

\* movieRepository.updateMovieRating
UpdateMovieRating(rt, averageRating, ratingCount) ==
    [rt EXCEPT !.averageRating = averageRating, !.ratingCount = ratingCount]

IdleCall ==
    [pc |-> "idle", op |-> "", rating |-> 0, err |-> "none",
     averageRating |-> [num |-> 0, den |-> 1], ratingCount |-> 0, calls |-> 0]

InitRate ==
    /\ ratings = [NoRatings EXCEPT !.rows = [u \in Users |-> 0]]
    /\ task = [u \in Users |-> IdleCall]
    /\ store = <<>>
    /\ movies = [m \in Movies |-> 0]
    /\ impl = "cacheService"
    /\ scan = NoScan
    /\ now = 0
    /\ hist = <<>>
    /\ written = <<>>
    /\ favorites = <<>>
    /\ max = 1
    /\ timeWindow = 1
    /\ zset = {}
    /\ zexp = 0
    /\ queue = <<>>
    /\ req = <<>>
    /\ nextId = 1
    /\ kin = <<>>
    /\ kout = <<>>

nonRate == <<now, max, timeWindow, zset, zexp, queue, req, nextId, written,
             movies, favorites, hist, kin, kout, impl, scan>>

\* A user calls upsertRating(u, OpMovie, rating) or deleteRating(u, OpMovie).
RateCall ==
    /\ \E u \in Users, op \in {"upsertRating", "deleteRating"}, r \in RatingValues :
        /\ task[u].pc = "idle"
        /\ task[u].calls < MaxCalls
        /\ op = "deleteRating" => r = 3
        /\ task' = [task EXCEPT ![u] =
                      [IdleCall EXCEPT !.pc = "check", !.op = op,
                                       !.rating = IF op = "upsertRating" THEN r ELSE 0,
                                       !.calls = task[u].calls + 1]]
    /\ UNCHANGED <<ratings, store, nonRate>>

\* upsertRating: the rating is validated and the movie looked up;
\* deleteRating: the rating is looked up.  The call throws or goes on.
RateCheck ==
    /\ \E u \in Users :
        /\ task[u].pc = "check"
        /\ task' = [task EXCEPT ![u] =
                      IF \/ task[u].op = "upsertRating"
                            /\ (task[u].rating < 1 \/ task[u].rating > 10)
                         \/ task[u].op = "deleteRating" /\ ratings.rows[u] = 0
                      THEN [@ EXCEPT !.pc = "done", !.err = "rejected"]
                      ELSE [@ EXCEPT !.pc = "write"]]
    /\ UNCHANGED <<ratings, store, nonRate>>

\* ratingRepository.upsertRating / deleteRating
RateWrite ==
    /\ \E u \in Users :
        /\ task[u].pc = "write"
        /\ ratings' = [ratings EXCEPT !.rows[u] = task[u].rating]
        /\ task' = [task EXCEPT ![u] = [@ EXCEPT !.pc = "calculate"]]
    /\ UNCHANGED <<store, nonRate>>

\* updateMovieAverageRating, first await: the aggregate is read.
RateCalculate ==
    /\ \E u \in Users :
        /\ task[u].pc = "calculate"
        /\ LET a == CalculateMovieAverageRating(ratings.rows)
           IN task' = [task EXCEPT ![u] =
                         [@ EXCEPT !.pc = "update",
                                   !.averageRating = a.averageRating,
                                   !.ratingCount = a.ratingCount]]
    /\ UNCHANGED <<ratings, store, nonRate>>

\* updateMovieAverageRating, second await: the row of the movie is written
\* with what was read.
RateUpdate ==
    /\ \E u \in Users :
        /\ task[u].pc = "update"
        /\ ratings' = UpdateMovieRating(ratings, task[u].averageRating,
                                        task[u].ratingCount)
        /\ task' = [task EXCEPT ![u] = [@ EXCEPT !.pc = "invalidate"]]
    /\ UNCHANGED <<store, nonRate>>

\* Promise.all([invalidateMovie(movieId), cacheService.delete(...)])
RateInvalidate ==
    /\ \E u \in Users :
        /\ task[u].pc = "invalidate"
        /\ store' = CsDelete(CsInvalidateMovie(store, OpMovie, {}),
                             RatingsUserKey(u), TRUE)
        /\ task' = [task EXCEPT ![u] = [@ EXCEPT !.pc = "done"]]
    /\ UNCHANGED <<ratings, nonRate>>

\* The caller has the result.
RateReturn ==
    /\ \E u \in Users :
        /\ task[u].pc = "done"
        /\ task' = [task EXCEPT ![u] = [@ EXCEPT !.pc = "idle"]]
    /\ UNCHANGED <<ratings, store, nonRate>>

NextRate ==
    \/ RateCall
    \/ RateCheck
    \/ RateWrite
    \/ RateCalculate
    \/ RateUpdate
    \/ RateInvalidate
    \/ RateReturn

SpecRate == InitRate /\ [][NextRate]_vars

\* Two fractions are the same number.
SameNumber(a, b) == a.num * b.den = b.num * a.den

\* C29 (as claimed): once the rating calls made on the movie have all
\* completed, the averageRating and ratingCount of its row are the average
\* and the count of the ratings stored for it.
C29_AggregatesMatchRatings ==
    (\A u \in Users : task[u].pc = "idle") =>
        /\ ratings.ratingCount =
               CalculateMovieAverageRating(ratings.rows).ratingCount
        /\ SameNumber(ratings.averageRating,
                      CalculateMovieAverageRating(ratings.rows).averageRating)

(***************************************************************************)
(* SpecShared: the limiter and the cache layer on the one redis client.    *)
(* The limiter key lives in the same database as the cache entries; what a *)
(* cache-layer call does to it follows from the keys the call names.       *)
(***************************************************************************)
\* key = `${keyPrefix}:${ip}:${request.routeOptions.url}`, keyPrefix being
\* 'ratelimit:api'
RateLimitKey == <<"ratelimit:", "api:", "ip", "/movies">>

SharedKeys ==
    {MovieKey(OpMovie), ListKey(<<"q1">>), SearchKey(<<"q1">>), UserKey(OpUser)}

CacheLayerOps ==
    {"invalidateMovie", "invalidateUser", "invalidateLists",
     "invalidateSearches", "flushAll"}

\* The database: the cache entries and, when it exists, the limiter key.
Database(s, z, zx) ==
    IF z = {} THEN s
    ELSE [k \in (DOMAIN s) \cup {RateLimitKey} |->
             IF k = RateLimitKey THEN [val |-> z, exp |-> zx] ELSE s[k]]

\* CacheService.flushAll: redis.flushdb() removes every key of the database.
CsFlushAll(db, up) == IF up THEN <<>> ELSE db

\* The database a cache-layer call leaves, the store answering.
CacheLayerCall(op, db) ==
    CASE op = "invalidateMovie" -> CsInvalidateMovie(db, OpMovie, {})
      [] op = "invalidateUser" -> CsInvalidateUser(db, OpUser, {})
      [] op = "invalidateLists" -> CsInvalidateLists(db, {})
      [] op = "invalidateSearches" -> CsInvalidateSearches(db, {})
      [] op = "flushAll" -> CsFlushAll(db, TRUE)

InitShared ==
    /\ now = 0
    /\ max = 2
    /\ timeWindow = 1
    /\ zset = {}
    /\ zexp = 0
    /\ queue = <<>>
    /\ req = [r \in 1..MaxReq |-> IdleReq]
    /\ nextId = 1
    /\ store = <<>>
    /\ written = <<>>
    /\ movies = <<>>
    /\ favorites = <<>>
    /\ hist = <<>>
    /\ kin = <<>>
    /\ kout = <<>>
    /\ impl = "cacheService"
    /\ scan = NoScan
    /\ task = [mut |-> NoTask, rd |-> NoTask]
    /\ ratings = NoRatings

nonShared == <<now, max, timeWindow, queue, req, nextId, written, movies,
               favorites, kin, kout, impl, scan, task, ratings>>

\* cacheService.set(k, v, TTL.MEDIUM) by a read that missed.
SharedSet ==
    /\ \E k \in SharedKeys :
        /\ k \notin DOMAIN store
        /\ store' = CsSet(store, k, Num(1), TTL_MEDIUM, now, TRUE)
    /\ hist' = <<[op |-> "set"]>>
    /\ UNCHANGED <<zset, zexp, nonShared>>

\* A cache-layer call runs on the database.
SharedCall(op) ==
    LET db == CacheLayerCall(op, Database(store, zset, zexp))
    IN /\ store' = [k \in (DOMAIN db) \ {RateLimitKey} |-> db[k]]
       /\ zset' = IF RateLimitKey \in DOMAIN db THEN zset ELSE {}
       /\ zexp' = IF RateLimitKey \in DOMAIN db THEN zexp ELSE 0
       /\ hist' = <<[op |-> op]>>
       /\ UNCHANGED nonShared

\* cacheService.invalidateMovie / invalidateUser / invalidateLists /
\* invalidateSearches
SharedInvalidate ==
    \E op \in CacheLayerOps \ {"flushAll"} : SharedCall(op)

\* DELETE /admin/cache: cacheService.flushAll()
SharedFlushAll == SharedCall("flushAll")

NextShared ==
    \/ RLStart /\ UNCHANGED <<cacheVars, keyVars>>
    \/ RLExecOk /\ UNCHANGED <<cacheVars, keyVars>>
    \/ RLFinish /\ UNCHANGED <<cacheVars, keyVars>>
    \/ SharedSet
    \/ SharedInvalidate
    \/ SharedFlushAll

SpecShared == InitShared /\ [][NextShared]_vars

\* C30 (as claimed): a cache-layer call leaves the limiter key as it was: the
\* window set holds the same entries after it, with the same expiry, so the
\* next limiter decision is what it would have been.
C30_CacheOpsLeaveLimiterKey ==
    [][(hist' # hist /\ hist'[1].op \in CacheLayerOps)
          => (zset' = zset /\ zexp' = zexp)]_vars

====
